---- MODULE Spec2Model ----
(***************************************************************************)
(* Model of the MSA metadata extractor: the Gemini client (retry loop,     *)
(* response parser) and the schema validator/normalizer.                   *)
(*                                                                         *)
(* JSON / Python values are tagged records:                                *)
(*   [t |-> "null"]                      None                              *)
(*   [t |-> "bool",  v |-> TRUE]         True / False                      *)
(*   [t |-> "int",   v |-> 7]            int                               *)
(*   [t |-> "float", v10 |-> 37]         float, in tenths (3.7)            *)
(*   [t |-> "str",   v |-> "abc"]        str                               *)
(*   [t |-> "list",  v |-> <<...>>]      list                              *)
(*   [t |-> "obj",   v |-> [k |-> ...]]  dict with string keys             *)
(* An exception leaving a function is  [t |-> "raise", exc |-> <type>].    *)
(***************************************************************************)
EXTENDS Integers, Sequences, FiniteSets, TLC

VARIABLES
    cfg,         \* configuration read from the environment at import time
    pc,          \* position of the running operation
    data,        \* normalize's argument / the parsed LLM answer
    result,      \* value returned by the operation (or the exception raised)
    again,       \* normalize applied to a previous normalize result
    operation,   \* the GeminiClient method that is running
    attempt,     \* _call_with_retry: the loop variable
    calls,       \* number of times the transport (api_call) was invoked
    sleeps,      \* the delays passed to time.sleep, in order
    last_exception,  \* _call_with_retry: the last exception caught
    response,    \* response.text of the transport's successful answer
    is_valid,    \* outcome of validate() on the parsed answer
    error,       \* details of the LLMError raised
    file,        \* the document extract_metadata is given: its suffix and condition
    llm_mode,    \* the LLM processing mode of the extraction
    bundle,      \* the extraction result: raw_text and metadata["image_pages_bytes"]
    requests,    \* the client methods called, in order, with what they send
    text_metadata,    \* dual_llm: the text call's result
    vision_metadata,  \* dual_llm: the vision call's result
    cpc,         \* position of extract_metadata
    outcome,     \* what extract_metadata returned or raised
    jobs,        \* the extractions table: job id -> row
    run,         \* the job run in progress
    doc,         \* the PDF file _extract_from_pdf is given
    opts,        \* strategy, EXTRACTION_MODE, extraction method and OCR engine
    ppc,         \* position of _extract_from_pdf
    events,      \* the calls made on the document and on the OCR handler, in order
    extraction,  \* the ExtractedTextResult, or the exception raised
    tasks        \* the background tasks of the accepted uploads

nvars == <<cfg, pc, data, result, again>>
cvars == <<operation, attempt, calls, sleeps, last_exception, response, is_valid, error>>
xvars == <<file, llm_mode, bundle, requests, text_metadata, vision_metadata, cpc, outcome>>
jvars == <<jobs, run>>
pvars == <<doc, opts, ppc, events, extraction>>
uvars == <<tasks>>
vars == <<cfg, pc, data, result, again,
          operation, attempt, calls, sleeps, last_exception, response, is_valid, error,
          file, llm_mode, bundle, requests, text_metadata, vision_metadata, cpc, outcome,
          jobs, run, doc, opts, ppc, events, extraction, tasks>>

(***************************************************************************)
(* Bounds of the model.                                                    *)
(***************************************************************************)
MaxFieldLengthCfg == 11     \* MAX_FIELD_LENGTH is explored over 0..this, and its default
MaxSampleLen == 13          \* sample extracted values have 0..this characters
MaxScoreOver == 50          \* sample scores run from this far below 0 to this far above 100
MaxRetriesCfg == 3          \* API_MAX_RETRIES is explored over 0..this
MaxInitialDelayCfg == 2     \* API_RETRY_INITIAL_DELAY is explored over 1..this (seconds)
SmallMaxDelay == 3          \* API_RETRY_MAX_DELAY is explored over this and its default
MaxCoordinatorRetries == 2  \* API_MAX_RETRIES is explored over 0..this while extract_metadata runs
SmallMaxTextLength == 8     \* MAX_TEXT_LENGTH is explored over this and its default
MaxJobs == 1                \* at most this many jobs are created
SmallFieldLength == 4       \* MAX_FIELD_LENGTH while jobs run
MaxPageNum == 5             \* page number of the last image page of the sample documents

(***************************************************************************)
(* Python / JSON value helpers.                                            *)
(***************************************************************************)
JNull == [t |-> "null"]
JBool(b) == [t |-> "bool", v |-> b]
JInt(i) == [t |-> "int", v |-> i]
JFloat(n) == [t |-> "float", v10 |-> n]
JStr(s) == [t |-> "str", v |-> s]
JList(s) == [t |-> "list", v |-> s]
JObj(f) == [t |-> "obj", v |-> f]
EmptyDict == JObj(<<>>)
Raise(e) == [t |-> "raise", exc |-> e]

IsDict(x) == x.t = "obj"
IsStr(x) == x.t = "str"
IsRaise(x) == x.t = "raise"

\* dict.get(key, default)
Get(d, key, default) == IF key \in DOMAIN d.v THEN d.v[key] ELSE default

RECURSIVE Repeat(_, _)
Repeat(c, n) ==
    IF n = 0 THEN ""
    ELSE LET h == Repeat(c, n \div 2)
         IN  IF n % 2 = 0 THEN h \o h ELSE h \o h \o c

Digit(n) == SubSeq("0123456789", n + 1, n + 1)

RECURSIVE NatToStr(_)
NatToStr(n) == IF n < 10 THEN Digit(n) ELSE NatToStr(n \div 10) \o Digit(n % 10)

IntToStr(i) == IF i < 0 THEN "-" \o NatToStr(-i) ELSE NatToStr(i)

\* bool(x): Python truth value
Truthy(x) ==
    CASE x.t = "null"  -> FALSE
      [] x.t = "bool"  -> x.v
      [] x.t = "int"   -> x.v # 0
      [] x.t = "float" -> x.v10 # 0
      [] x.t = "str"   -> x.v # ""
      [] x.t = "list"  -> Len(x.v) > 0
      [] x.t = "obj"   -> DOMAIN x.v # {}

RECURSIVE PyRepr(_)
RECURSIVE JoinRepr(_)
JoinRepr(s) ==
    IF Len(s) = 0 THEN ""
    ELSE IF Len(s) = 1 THEN PyRepr(s[1])
    ELSE PyRepr(s[1]) \o ", " \o JoinRepr(Tail(s))

\* repr(x); a dict is rendered for at most one key (insertion order is not modelled)
PyRepr(x) ==
    CASE x.t = "null"  -> "None"
      [] x.t = "bool"  -> IF x.v THEN "True" ELSE "False"
      [] x.t = "int"   -> IntToStr(x.v)
      [] x.t = "float" ->
            LET a == IF x.v10 < 0 THEN -x.v10 ELSE x.v10
            IN  (IF x.v10 < 0 THEN "-" ELSE "") \o NatToStr(a \div 10) \o "." \o Digit(a % 10)
      [] x.t = "str"   -> "'" \o x.v \o "'"
      [] x.t = "list"  -> "[" \o JoinRepr(x.v) \o "]"
      [] x.t = "obj"   ->
            IF DOMAIN x.v = {} THEN "{}"
            ELSE LET k == CHOOSE k \in DOMAIN x.v : TRUE
                 IN  "{'" \o k \o "': " \o PyRepr(x.v[k]) \o "}"

\* str(x)
PyStr(x) == IF x.t = "str" THEN x.v ELSE PyRepr(x)

IsDigitChar(c) == \E n \in 0..9 : Digit(n) = c

RECURSIVE DigitsToNat(_)
DigitsToNat(s) ==
    IF Len(s) = 0 THEN 0
    ELSE 10 * DigitsToNat(SubSeq(s, 1, Len(s) - 1))
         + (CHOOSE n \in 0..9 : Digit(n) = SubSeq(s, Len(s), Len(s)))

AllDigits(s) == Len(s) > 0 /\ \A i \in 1..Len(s) : IsDigitChar(SubSeq(s, i, i))

\* int(x): an Int, or the exception int() raises
PyInt(x) ==
    CASE x.t = "int"   -> JInt(x.v)
      [] x.t = "bool"  -> JInt(IF x.v THEN 1 ELSE 0)
      [] x.t = "float" -> JInt(IF x.v10 >= 0 THEN x.v10 \div 10 ELSE -((-x.v10) \div 10))
      [] x.t = "str"   ->
            IF AllDigits(x.v) THEN JInt(DigitsToNat(x.v))
            ELSE IF Len(x.v) > 1 /\ SubSeq(x.v, 1, 1) = "-" /\ AllDigits(SubSeq(x.v, 2, Len(x.v)))
                 THEN JInt(-DigitsToNat(SubSeq(x.v, 2, Len(x.v))))
            ELSE Raise("ValueError")
      [] OTHER         -> Raise("TypeError")

\* len(x): an Int, or TypeError for an object without len()
PyLen(x) ==
    CASE x.t = "str"  -> JInt(Len(x.v))
      [] x.t = "list" -> JInt(Len(x.v))
      [] x.t = "obj"  -> JInt(Cardinality(DOMAIN x.v))
      [] OTHER        -> Raise("TypeError")

\* x[:n] for n >= 0
PySlice(x, n) ==
    CASE x.t = "str"  -> JStr(SubSeq(x.v, 1, n))
      [] x.t = "list" -> JList(SubSeq(x.v, 1, n))
      [] OTHER        -> Raise("TypeError")

Min(a, b) == IF a < b THEN a ELSE b
Max(a, b) == IF a > b THEN a ELSE b

(***************************************************************************)
(* config.py                                                               *)
(***************************************************************************)
NOT_FOUND_VALUE == "Not Found"
MAX_FIELD_LENGTH_DEFAULT == 1000
NOTES_MAX_LENGTH == 500
MAX_TEXT_LENGTH_DEFAULT == 50000
API_MAX_RETRIES_DEFAULT == 3
API_RETRY_INITIAL_DELAY_DEFAULT == 1
API_RETRY_MAX_DELAY_DEFAULT == 30

API_RETRY_EXCEPTIONS ==
    << "google.api_core.exceptions.ResourceExhausted",
       "google.api_core.exceptions.ServiceUnavailable",
       "google.api_core.exceptions.InternalServerError",
       "google.api_core.exceptions.DeadlineExceeded" >>
SCORE_MIN == 0
SCORE_MAX == 100

MATCH_FLAG_VALUES ==
    {"same_as_template", "similar_not_exact", "different_from_template",
     "flag_for_review", "not_found"}

VALIDATION_STATUS_VALUES == {"valid", "warning", "invalid", "not_found"}

\* METADATA_SCHEMA in definition order; every field has the enhanced (dict) structure
METADATA_SCHEMA ==
    << [category |-> "Org Details",
        fields |-> << "Organization Name" >>],
       [category |-> "Contract Lifecycle",
        fields |-> << "Party A", "Party B", "Execution Date", "Effective Date",
                      "Expiration / Termination Date",
                      "Authorized Signatory - Party A",
                      "Authorized Signatory - Party B" >>],
       [category |-> "Business Terms",
        fields |-> << "Document Type", "Termination Notice Period" >>],
       [category |-> "Commercial Operations",
        fields |-> << "Billing Frequency", "Payment Terms",
                      "Expense Reimbursement Rules" >>],
       [category |-> "Finance Terms",
        fields |-> << "Pricing Model Type", "Currency", "Contract Value" >>],
       [category |-> "Risk & Compliance",
        fields |-> << "Indemnification Clause Reference",
                      "Limitation of Liability Cap", "Insurance Requirements",
                      "Warranties / Disclaimers" >>],
       [category |-> "Legal Terms",
        fields |-> << "Governing Law", "Confidentiality Clause Reference",
                      "Force Majeure Clause Reference" >>] >>

Range(s) == {s[i] : i \in DOMAIN s}
Categories == {METADATA_SCHEMA[i].category : i \in DOMAIN METADATA_SCHEMA}
FieldsOf(c) ==
    Range((CHOOSE e \in Range(METADATA_SCHEMA) : e.category = c).fields)
Slots == UNION {{<<c, f>> : f \in FieldsOf(c)} : c \in Categories}


(***************************************************************************)
(* ai/schema.py: SchemaValidator.normalize                                 *)
(***************************************************************************)

\* Variant of TruncateValue: the sentinel is not exempt from truncation.
TruncateValueAlways(extracted_value, max_len) ==
    IF Len(extracted_value) > max_len
    THEN SubSeq(extracted_value, 1, max_len)
    ELSE extracted_value

\* Variant of TruncateValue: the slice keeps one character too many.
TruncateValueOffByOne(extracted_value, max_len) ==
    IF extracted_value # NOT_FOUND_VALUE /\ Len(extracted_value) > max_len
    THEN SubSeq(extracted_value, 1, max_len + 1)
    ELSE extracted_value

\* extracted_value[:MAX_FIELD_LENGTH] when it is not the sentinel and too long
TruncateValue(extracted_value, max_len) ==
    IF extracted_value # NOT_FOUND_VALUE /\ Len(extracted_value) > max_len
    THEN SubSeq(extracted_value, 1, max_len)
    ELSE extracted_value

\* Variant of ClampScore: the lower bound is forgotten.
ClampScoreUpperOnly(score) == Min(SCORE_MAX, score)

\* max(0, min(100, score))
ClampScore(score) == Max(SCORE_MIN, Min(SCORE_MAX, score))

\* notes[:500] when len(notes) > 500; TypeError when notes has no len()
TruncateNotes(notes) ==
    LET n == PyLen(notes)
    IN  IF IsRaise(n) THEN n
        ELSE IF n.v > NOTES_MAX_LENGTH THEN PySlice(notes, NOTES_MAX_LENGTH)
        ELSE notes

\* match_flag if it is one of MATCH_FLAG_VALUES, else "not_found"
CheckMatchFlag(match_flag) ==
    IF IsStr(match_flag) /\ match_flag.v \in MATCH_FLAG_VALUES
    THEN match_flag.v ELSE "not_found"

\* validation_status if it is one of VALIDATION_STATUS_VALUES, else "not_found"
CheckStatus(validation_status) ==
    IF IsStr(validation_status) /\ validation_status.v \in VALIDATION_STATUS_VALUES
    THEN validation_status.v ELSE "not_found"

\* Variant of ReadField: every field is read as the legacy format.
ReadFieldLegacyOnly(field_data) ==
    LET ev == IF Truthy(field_data) THEN field_data ELSE JStr(NOT_FOUND_VALUE)
    IN  [extracted_value |-> ev,
         match_flag      |-> IF IsStr(ev) /\ ev.v = NOT_FOUND_VALUE
                             THEN JStr("not_found") ELSE JStr("flag_for_review"),
         validation      |-> EmptyDict]

\* The extracted_value, match_flag and validation read from a field's data:
\* the enhanced structure when it is a dict, the legacy format otherwise.
ReadField(field_data) ==
    IF IsDict(field_data)
    THEN [extracted_value |-> Get(field_data, "extracted_value", JStr(NOT_FOUND_VALUE)),
          match_flag      |-> Get(field_data, "match_flag", JStr("not_found")),
          validation      |-> Get(field_data, "validation", EmptyDict)]
    ELSE LET ev == IF Truthy(field_data) THEN field_data ELSE JStr(NOT_FOUND_VALUE)
         IN  [extracted_value |-> ev,
              match_flag      |-> IF IsStr(ev) /\ ev.v = NOT_FOUND_VALUE
                                  THEN JStr("not_found") ELSE JStr("flag_for_review"),
              validation      |-> EmptyDict]

\* One iteration of normalize's inner loop: the normalized field record, or
\* the exception that leaves normalize.
NormalizeField(d, category, field_name, max_len) ==
    IF ~IsDict(d) THEN Raise("AttributeError")
    ELSE LET cat == Get(d, category, EmptyDict) IN
    IF ~IsDict(cat) THEN Raise("AttributeError")
    ELSE LET field_data == Get(cat, field_name, EmptyDict)
             rd == ReadField(field_data)
             ev0 == IF rd.extracted_value.t = "null" THEN NOT_FOUND_VALUE
                    ELSE PyStr(rd.extracted_value)
             extracted_value == TruncateValue(ev0, max_len)
             match_flag == CheckMatchFlag(rd.match_flag)
             validation == rd.validation
             score0 == IF IsDict(validation) THEN Get(validation, "score", JInt(0)) ELSE JInt(0)
             status0 == IF IsDict(validation) THEN Get(validation, "status", JStr("not_found"))
                        ELSE JStr("not_found")
             notes0 == IF IsDict(validation) THEN Get(validation, "notes", JStr("")) ELSE JStr("")
             validation_status == CheckStatus(status0)
             score1 == PyInt(score0)
         IN  IF IsRaise(score1) THEN score1
             ELSE LET validation_notes == TruncateNotes(notes0) IN
             IF IsRaise(validation_notes) THEN validation_notes
             ELSE JObj([extracted_value |-> JStr(extracted_value),
                        match_flag      |-> JStr(match_flag),
                        validation      |-> JObj([score  |-> JInt(ClampScore(score1.v)),
                                                  status |-> JStr(validation_status),
                                                  notes  |-> validation_notes])])

\* The (category, field) pairs in the order normalize visits them.
RECURSIVE SlotSeqFrom(_)
SlotSeqFrom(i) ==
    IF i > Len(METADATA_SCHEMA) THEN <<>>
    ELSE [j \in 1..Len(METADATA_SCHEMA[i].fields) |->
             <<METADATA_SCHEMA[i].category, METADATA_SCHEMA[i].fields[j]>>]
         \o SlotSeqFrom(i + 1)
SlotSeq == SlotSeqFrom(1)

\* Variant of Normalize: only the categories d gives are filled in.
NormalizeGivenOnly(d, max_len) ==
    LET fr == [s \in Slots |-> NormalizeField(d, s[1], s[2], max_len)]
        bad == {i \in DOMAIN SlotSeq : IsRaise(fr[SlotSeq[i]])}
    IN  IF bad # {}
        THEN fr[SlotSeq[CHOOSE i \in bad : \A j \in bad : i <= j]]
        ELSE JObj([c \in Categories \cap DOMAIN d.v |->
                      JObj([f \in FieldsOf(c) |-> fr[<<c, f>>]])])

\* normalize(data): the normalized dict, or the first exception raised.
Normalize(d, max_len) ==
    LET fr == [s \in Slots |-> NormalizeField(d, s[1], s[2], max_len)]
        bad == {i \in DOMAIN SlotSeq : IsRaise(fr[SlotSeq[i]])}
    IN  IF bad # {}
        THEN fr[SlotSeq[CHOOSE i \in bad : \A j \in bad : i <= j]]
        ELSE JObj([c \in Categories |-> JObj([f \in FieldsOf(c) |-> fr[<<c, f>>]])])

\* get_empty_schema()
GetEmptySchema(max_len) == Normalize(EmptyDict, max_len)


(***************************************************************************)
(* json.loads on a string.  Objects, arrays, strings without escapes,      *)
(* integers, decimals (kept to one decimal), true/false/null, whitespace.  *)
(* A parse result is [ok |-> TRUE, v |-> value, next |-> index after it]   *)
(* or [ok |-> FALSE].                                                      *)
(***************************************************************************)
CharAt(s, i) == IF i >= 1 /\ i <= Len(s) THEN SubSeq(s, i, i) ELSE ""

IsWs(c) == c \in {" ", "\n", "\t", "\r"}

RECURSIVE SkipWs(_, _)
SkipWs(s, i) == IF IsWs(CharAt(s, i)) THEN SkipWs(s, i + 1) ELSE i

StartsWithAt(s, i, p) == i + Len(p) - 1 <= Len(s) /\ SubSeq(s, i, i + Len(p) - 1) = p

Fail == [ok |-> FALSE]
Ok(v, next) == [ok |-> TRUE, v |-> v, next |-> next]

\* index of the closing quote of the string whose first character is at i, 0 if none
RECURSIVE StringEnd(_, _)
StringEnd(s, i) ==
    IF i > Len(s) \/ CharAt(s, i) \in {"\\", "\n"} THEN 0
    ELSE IF CharAt(s, i) = "\"" THEN i
    ELSE StringEnd(s, i + 1)

\* index after the run of digits starting at i
RECURSIVE DigitsEnd(_, _)
DigitsEnd(s, i) == IF IsDigitChar(CharAt(s, i)) THEN DigitsEnd(s, i + 1) ELSE i

ParseString(s, i) ==
    IF CharAt(s, i) # "\"" THEN Fail
    ELSE LET e == StringEnd(s, i + 1)
         IN  IF e = 0 THEN Fail ELSE Ok(SubSeq(s, i + 1, e - 1), e + 1)

ParseNumber(s, i) ==
    LET neg == CharAt(s, i) = "-"
        b == IF neg THEN i + 1 ELSE i
        e == DigitsEnd(s, b)
    IN  IF e = b \/ (e - b > 1 /\ CharAt(s, b) = "0") THEN Fail
        ELSE LET whole == DigitsToNat(SubSeq(s, b, e - 1))
             IN  IF CharAt(s, e) = "."
                 THEN LET fe == DigitsEnd(s, e + 1)
                          tenths == 10 * whole + DigitsToNat(CharAt(s, e + 1))
                      IN  IF fe = e + 1 THEN Fail
                          ELSE Ok(JFloat(IF neg THEN -tenths ELSE tenths), fe)
                 ELSE Ok(JInt(IF neg THEN -whole ELSE whole), e)

RECURSIVE ParseValue(_, _)
RECURSIVE ParseMembers(_, _, _)
RECURSIVE ParseElements(_, _, _)

\* the members of an object after its "{" or after a ",": i is at a key
ParseMembers(s, i, acc) ==
    LET k == ParseString(s, SkipWs(s, i))
    IN  IF ~k.ok THEN Fail
        ELSE LET c == SkipWs(s, k.next)
             IN  IF CharAt(s, c) # ":" THEN Fail
                 ELSE LET v == ParseValue(s, c + 1)
                      IN  IF ~v.ok THEN Fail
                          ELSE LET n == SkipWs(s, v.next)
                                   acc2 == (k.v :> v.v) @@ acc
                               IN  IF CharAt(s, n) = "," THEN ParseMembers(s, n + 1, acc2)
                                   ELSE IF CharAt(s, n) = "}" THEN Ok(JObj(acc2), n + 1)
                                   ELSE Fail

\* the elements of an array after its "[" or after a ","
ParseElements(s, i, acc) ==
    LET v == ParseValue(s, i)
    IN  IF ~v.ok THEN Fail
        ELSE LET n == SkipWs(s, v.next)
                 acc2 == Append(acc, v.v)
             IN  IF CharAt(s, n) = "," THEN ParseElements(s, n + 1, acc2)
                 ELSE IF CharAt(s, n) = "]" THEN Ok(JList(acc2), n + 1)
                 ELSE Fail

ParseValue(s, i0) ==
    LET i == SkipWs(s, i0)
        c == CharAt(s, i)
    IN  CASE c = "{" ->
                IF CharAt(s, SkipWs(s, i + 1)) = "}"
                THEN Ok(EmptyDict, SkipWs(s, i + 1) + 1)
                ELSE ParseMembers(s, i + 1, <<>>)
          [] c = "[" ->
                IF CharAt(s, SkipWs(s, i + 1)) = "]"
                THEN Ok(JList(<<>>), SkipWs(s, i + 1) + 1)
                ELSE ParseElements(s, i + 1, <<>>)
          [] c = "\"" ->
                LET r == ParseString(s, i)
                IN  IF r.ok THEN Ok(JStr(r.v), r.next) ELSE Fail
          [] StartsWithAt(s, i, "null") -> Ok(JNull, i + 4)
          [] StartsWithAt(s, i, "true") -> Ok(JBool(TRUE), i + 4)
          [] StartsWithAt(s, i, "false") -> Ok(JBool(FALSE), i + 5)
          [] c = "-" \/ IsDigitChar(c) -> ParseNumber(s, i)
          [] OTHER -> Fail

\* json.loads(text): the decoded value, or JSONDecodeError
JsonLoads(text) ==
    LET r == ParseValue(text, 1)
    IN  IF r.ok /\ SkipWs(text, r.next) = Len(text) + 1 THEN r.v
        ELSE Raise("JSONDecodeError")

(***************************************************************************)
(* ai/gemini_client.py: GeminiClient._parse_json_response                  *)
(***************************************************************************)
RECURSIVE StripLeft(_)
StripLeft(s) == IF Len(s) > 0 /\ IsWs(CharAt(s, 1)) THEN StripLeft(SubSeq(s, 2, Len(s))) ELSE s

RECURSIVE StripRight(_)
StripRight(s) ==
    IF Len(s) > 0 /\ IsWs(CharAt(s, Len(s))) THEN StripRight(SubSeq(s, 1, Len(s) - 1)) ELSE s

\* s.strip()
Strip(s) == StripRight(StripLeft(s))

\* p in s
Contains(s, p) == \E i \in 1..(Len(s) - Len(p) + 1) : SubSeq(s, i, i + Len(p) - 1) = p

\* index of the first "\n" of s at or after i, 0 if none
RECURSIVE NewlineFrom(_, _)
NewlineFrom(s, i) ==
    IF i > Len(s) THEN 0
    ELSE IF CharAt(s, i) = "\n" THEN i
    ELSE NewlineFrom(s, i + 1)

\* s.split("\n")
RECURSIVE SplitLines(_)
SplitLines(s) ==
    LET i == NewlineFrom(s, 1)
    IN  IF i = 0 THEN <<s>>
        ELSE <<SubSeq(s, 1, i - 1)>> \o SplitLines(SubSeq(s, i + 1, Len(s)))

\* "\n".join(lines)
RECURSIVE JoinLines(_)
JoinLines(lines) ==
    IF Len(lines) = 0 THEN ""
    ELSE IF Len(lines) = 1 THEN lines[1]
    ELSE lines[1] \o "\n" \o JoinLines(Tail(lines))

\* The three backticks of a markdown code fence.  A TLA+ string literal cannot
\* hold a backtick: in every text of this module "~" stands for the backtick.
FENCE == "~~~"

\* Variant of JsonCandidate: the fence is never looked for.
JsonCandidateNoFence(response_text) == Strip(response_text)

\* The text handed to json.loads: the stripped response, cut down to the lines
\* from the first one holding "{" to the last one holding "}" when it starts
\* with a code fence.
JsonCandidate(response_text) ==
    LET text == Strip(response_text)
    IN  IF StartsWithAt(text, 1, FENCE)
        THEN LET lines == SplitLines(text)
                 starts == {i \in DOMAIN lines : Contains(lines[i], "{")}
                 ends == {i \in DOMAIN lines : Contains(lines[i], "}")}
             IN  IF starts # {} /\ ends # {}
                 THEN LET json_start == CHOOSE i \in starts : \A j \in starts : i <= j
                          json_end == CHOOSE i \in ends : \A j \in ends : i >= j
                      IN  JoinLines(SubSeq(lines, json_start, json_end))
                 ELSE text
        ELSE text

\* _parse_json_response: the decoded JSON, or the empty schema on a decode error
ParseJsonResponse(response_text, max_len) ==
    LET r == JsonLoads(JsonCandidate(response_text))
    IN  IF IsRaise(r) THEN GetEmptySchema(max_len) ELSE r

(***************************************************************************)
(* Inputs: the dictionaries handed to normalize.  One field (or one        *)
(* category) of an otherwise empty answer is varied at a time, next to     *)
(* complete answers and non-dict answers.                                  *)
(***************************************************************************)
Absent == [t |-> "absent"]

\* a dict holding the keys of rec whose value is not Absent
MkObj(rec) == JObj([k \in {k \in DOMAIN rec : rec[k].t # "absent"} |-> rec[k]])

LongValue == Repeat("x", MAX_FIELD_LENGTH_DEFAULT + 1)

SampleStrings ==
    {SubSeq("abcdefghijklmnopqrstuvwxyz", 1, n) : n \in 0..MaxSampleLen}
        \cup {NOT_FOUND_VALUE, NOT_FOUND_VALUE \o "!", LongValue}

SampleExtractedValues ==
    {JStr(s) : s \in SampleStrings}
        \cup {Absent, JNull, JInt(42), JInt(0), JFloat(37), JBool(TRUE), JList(<<>>),
              JList(<<JInt(1), JStr("a")>>), EmptyDict, JObj([k |-> JInt(1)])}

SampleMatchFlags ==
    {JStr(m) : m \in MATCH_FLAG_VALUES}
        \cup {Absent, JStr("bogus"), JInt(1), JNull, JList(<<>>)}

SampleScores ==
    {JInt(n) : n \in (SCORE_MIN - MaxScoreOver)..(SCORE_MAX + MaxScoreOver)}
        \cup {Absent, JNull, JStr("abc"), JStr("42"), JStr("-7"), JStr("3.7"), JStr(""),
              JFloat(999), JFloat(-5), JFloat(1507), JBool(TRUE), JList(<<>>), EmptyDict}

SampleStatuses ==
    {JStr(x) : x \in VALIDATION_STATUS_VALUES}
        \cup {Absent, JStr("bogus"), JNull, JInt(3)}

SampleNotes ==
    {Absent, JStr(""), JStr("looks right"),
     JStr(Repeat("n", NOTES_MAX_LENGTH)), JStr(Repeat("n", NOTES_MAX_LENGTH + 1)),
     JNull, JInt(5), JList(<<JStr("a")>>), EmptyDict}

MkValidation(score, status, notes) ==
    MkObj([score |-> score, status |-> status, notes |-> notes])

GoodValidation == MkValidation(JInt(90), JStr("valid"), JStr("looks right"))

SampleValidations ==
    {Absent, JNull, JStr("high"), JList(<<>>), EmptyDict}
        \cup {MkValidation(x, JStr("valid"), JStr("looks right")) : x \in SampleScores}
        \cup {MkValidation(JInt(90), x, JStr("looks right")) : x \in SampleStatuses}
        \cup {MkValidation(JInt(90), JStr("valid"), x) : x \in SampleNotes}

MkField(extracted_value, match_flag, validation) ==
    MkObj([extracted_value |-> extracted_value, match_flag |-> match_flag,
           validation |-> validation])

GoodField == MkField(JStr("Acme"), JStr("same_as_template"), GoodValidation)

SampleFieldValues ==
    {JNull, JStr(""), JStr("Acme Corp"), JStr(NOT_FOUND_VALUE), JStr(NOT_FOUND_VALUE \o "!"),
     JInt(0), JInt(7), JList(<<>>), JList(<<JInt(1)>>), JBool(FALSE), EmptyDict}
        \cup {MkField(x, JStr("same_as_template"), GoodValidation) : x \in SampleExtractedValues}
        \cup {MkField(JStr("Acme"), x, GoodValidation) : x \in SampleMatchFlags}
        \cup {MkField(JStr("Acme"), JStr("same_as_template"), x) : x \in SampleValidations}
        \cup {JObj([extracted_value |-> JStr("Acme"), confidence |-> JInt(3)])}

SampleSlots == {<<"Org Details", "Organization Name">>, <<"Finance Terms", "Currency">>}

CompleteAnswer == JObj([c \in Categories |-> JObj([f \in FieldsOf(c) |-> GoodField])])

\* a complete answer with one category left out
AnswerWithout(c) ==
    JObj([k \in Categories \ {c} |-> JObj([f \in FieldsOf(k) |-> GoodField])])

NormalizeInputs ==
    {JNull, JList(<<>>), JList(<<EmptyDict>>), JStr("n/a"), JInt(3), EmptyDict, CompleteAnswer}
        \cup {AnswerWithout(c) : c \in {"Org Details", "Legal Terms"}}
        \cup {JObj(s[1] :> JObj(s[2] :> x)) : s \in SampleSlots, x \in SampleFieldValues}
        \cup {JObj(c :> x) : c \in {"Org Details", "Legal Terms"},
                             x \in {JNull, JStr("n/a"), JList(<<>>), JInt(1), EmptyDict}}
        \cup {JObj("Unknown Category" :> JObj("Organization Name" :> GoodField)),
              JObj(("Org Details" :> JObj("Organization Name" :> GoodField))
                   @@ ("Unknown Category" :> JStr("n/a"))),
              JObj("Org Details" :> JObj(("Organization Name" :> GoodField)
                                         @@ ("Unknown Field" :> GoodField)))}

(***************************************************************************)
(* Configuration (config.py reads each value from the environment).        *)
(***************************************************************************)
FieldLengthCfgs == (0..MaxFieldLengthCfg) \cup {MAX_FIELD_LENGTH_DEFAULT}
RetryCfgs == 0..MaxRetriesCfg
InitialDelayCfgs == 1..MaxInitialDelayCfg
MaxDelayCfgs == {SmallMaxDelay, API_RETRY_MAX_DELAY_DEFAULT}
CoordinatorRetryCfgs == 0..MaxCoordinatorRetries

None == [t |-> "none"]

\* no extraction is running
CoordinatorIdle ==
    /\ file = None
    /\ llm_mode = "none"
    /\ bundle = None
    /\ requests = <<>>
    /\ text_metadata = EmptyDict
    /\ vision_metadata = EmptyDict
    /\ cpc = "idle"
    /\ outcome = None

\* no job exists and no job run is in progress
RunnerIdle ==
    /\ jobs = <<>>
    /\ run = None

\* no PDF extraction is running
PdfIdle ==
    /\ doc = None
    /\ opts = None
    /\ ppc = "idle"
    /\ events = <<>>
    /\ extraction = None

\* no upload has been accepted
UploadsIdle == tasks = <<>>

\* no client operation is running
ClientIdle ==
    /\ operation = "none"
    /\ attempt = 0
    /\ calls = 0
    /\ sleeps = <<>>
    /\ last_exception = None
    /\ response = None
    /\ is_valid = None
    /\ error = None

(***************************************************************************)
(* Specification of the normalizer as a function: an input is drawn, then  *)
(* normalize / get_empty_schema are applied.                               *)
(***************************************************************************)
InitNormalize ==
    /\ cfg \in [max_field_length : FieldLengthCfgs,
                 max_retries : {API_MAX_RETRIES_DEFAULT},
                 initial_delay : {API_RETRY_INITIAL_DELAY_DEFAULT},
                 max_delay : {API_RETRY_MAX_DELAY_DEFAULT}]
    /\ ClientIdle
    /\ CoordinatorIdle
    /\ RunnerIdle
    /\ PdfIdle
    /\ UploadsIdle
    /\ data \in NormalizeInputs
    /\ pc = "start"
    /\ result = None
    /\ again = None

\* result = normalize(data)
NormalizeCall ==
    /\ pc = "start"
    /\ result' = Normalize(data, cfg.max_field_length)
    /\ pc' = "normalized"
    /\ UNCHANGED <<cfg, data, again, cvars, xvars, jvars, pvars, uvars>>

\* again = normalize(result); an exception raised by the inner call propagates
NormalizeAgainCall ==
    /\ pc = "normalized"
    /\ again' = IF IsRaise(result) THEN result
                ELSE Normalize(result, cfg.max_field_length)
    /\ pc' = "renormalized"
    /\ UNCHANGED <<cfg, data, result, cvars, xvars, jvars, pvars, uvars>>

\* result = get_empty_schema()
GetEmptySchemaCall ==
    /\ pc = "start"
    /\ result' = GetEmptySchema(cfg.max_field_length)
    /\ pc' = "empty_schema"
    /\ UNCHANGED <<cfg, data, again, cvars, xvars, jvars, pvars, uvars>>

NextNormalize == NormalizeCall \/ NormalizeAgainCall \/ GetEmptySchemaCall

SpecNormalize == InitNormalize /\ [][NextNormalize]_vars


(***************************************************************************)
(* ai/schema.py: SchemaValidator.validate against _build_json_schema       *)
(***************************************************************************)
\* "type": "integer": an int, or a float without fractional part; never a bool
IsJsonInteger(x) == x.t = "int" \/ (x.t = "float" /\ x.v10 % 10 = 0)
JsonNumber10(x) == IF x.t = "int" THEN 10 * x.v ELSE x.v10

ValidValidation(x) ==
    /\ IsDict(x)
    /\ {"score", "status"} \subseteq DOMAIN x.v
    /\ IsJsonInteger(x.v["score"])
    /\ JsonNumber10(x.v["score"]) >= 10 * SCORE_MIN
    /\ JsonNumber10(x.v["score"]) <= 10 * SCORE_MAX
    /\ IsStr(x.v["status"]) /\ x.v["status"].v \in VALIDATION_STATUS_VALUES
    /\ "notes" \in DOMAIN x.v =>
           IsStr(x.v["notes"]) /\ Len(x.v["notes"].v) <= NOTES_MAX_LENGTH

ValidField(x, max_len) ==
    /\ IsDict(x)
    /\ {"extracted_value", "match_flag", "validation"} \subseteq DOMAIN x.v
    /\ IsStr(x.v["extracted_value"]) /\ Len(x.v["extracted_value"].v) <= max_len
    /\ IsStr(x.v["match_flag"]) /\ x.v["match_flag"].v \in MATCH_FLAG_VALUES
    /\ ValidValidation(x.v["validation"])

\* Every field of a category is required; the categories themselves are not.
ValidCategory(x, c, max_len) ==
    /\ IsDict(x)
    /\ FieldsOf(c) \subseteq DOMAIN x.v
    /\ \A f \in FieldsOf(c) : ValidField(x.v[f], max_len)

\* validate(data)[0]
Validate(d, max_len) ==
    /\ IsDict(d)
    /\ \A c \in Categories \cap DOMAIN d.v : ValidCategory(d.v[c], c, max_len)

(***************************************************************************)
(* ai/gemini_client.py: GeminiClient._call_with_retry                      *)
(***************************************************************************)
LowerChar(c) ==
    LET up == "ABCDEFGHIJKLMNOPQRSTUVWXYZ"
        lo == "abcdefghijklmnopqrstuvwxyz"
    IN  IF \E i \in 1..26 : SubSeq(up, i, i) = c
        THEN LET i == CHOOSE i \in 1..26 : SubSeq(up, i, i) = c IN SubSeq(lo, i, i)
        ELSE c

\* s.lower()
RECURSIVE Lower(_)
Lower(s) ==
    IF Len(s) = 0 THEN ""
    ELSE Lower(SubSeq(s, 1, Len(s) - 1)) \o LowerChar(SubSeq(s, Len(s), Len(s)))

TRANSIENT_KEYWORDS ==
    {"rate limit", "quota", "429", "503", "502", "500",
     "timeout", "deadline", "unavailable", "retry"}

\* f"{type(e).__module__}.{type(e).__name__}"
FullExceptionName(e) == e.module \o "." \o e.name

\* the exception's type matches one of API_RETRY_EXCEPTIONS
TypeIsRetryable(e) ==
    \E i \in DOMAIN API_RETRY_EXCEPTIONS :
        \/ Contains(FullExceptionName(e), API_RETRY_EXCEPTIONS[i])
        \/ Contains(e.name, API_RETRY_EXCEPTIONS[i])

\* str(e).lower() holds one of the transient-failure keywords
MessageIsTransient(e) ==
    \E error_str \in {Lower(e.msg)} :
        \E k \in TRANSIENT_KEYWORDS : Contains(error_str, k)

\* Variant of ShouldRetry: every failure is retried.
ShouldRetryAlways(e) == TRUE

\* should_retry
ShouldRetry(e) == TypeIsRetryable(e) \/ MessageIsTransient(e)

RECURSIVE Pow2(_)
Pow2(n) == IF n = 0 THEN 1 ELSE 2 * Pow2(n - 1)

\* Variant of BackoffDelay: the cap is forgotten.
BackoffDelayUncapped(initial_delay, max_delay, n) == initial_delay * Pow2(n)

\* min(API_RETRY_INITIAL_DELAY * (2 ** attempt), API_RETRY_MAX_DELAY)
BackoffDelay(initial_delay, max_delay, n) == Min(initial_delay * Pow2(n), max_delay)

\* Variant of IsLastAttempt: one attempt more is allowed.
IsLastAttemptOffByOne(n, max_retries) == n = max_retries + 1

\* attempt == API_MAX_RETRIES
IsLastAttempt(n, max_retries) == n = max_retries

(***************************************************************************)
(* The transport: exceptions it raises and texts it answers.               *)
(***************************************************************************)
MkExc(module, name, msg) == [module |-> module, name |-> name, msg |-> msg]

SampleExceptions ==
    {MkExc("google.api_core.exceptions", "ResourceExhausted", "Resource has been exhausted"),
     MkExc("google.api_core.exceptions", "PermissionDenied", "API key not valid"),
     MkExc("builtins", "Exception", "429 Too Many Requests"),
     MkExc("builtins", "Exception", "Rate Limit exceeded"),
     MkExc("builtins", "ValueError", "Invalid input"),
     MkExc("builtins", "TimeoutError", "timed out")}

\* the failures drawn while extract_metadata runs: transient by type,
\* not transient, transient by message
CoordinatorExceptions ==
    {MkExc("google.api_core.exceptions", "ResourceExhausted", "Resource has been exhausted"),
     MkExc("google.api_core.exceptions", "PermissionDenied", "API key not valid"),
     MkExc("builtins", "Exception", "429 Too Many Requests")}

GoodDoc ==
    [lines |-> << "{",
                  "  \"Org Details\": {",
                  "    \"Organization Name\": {",
                  "      \"extracted_value\": \"Acme\",",
                  "      \"match_flag\": \"same_as_template\",",
                  "      \"validation\": {\"score\": 90, \"status\": \"valid\", \"notes\": \"looks right\"}",
                  "    }",
                  "  }",
                  "}" >>,
     value |-> JObj("Org Details" :> JObj("Organization Name" :> GoodField))]

LegacyDoc ==
    [lines |-> << "{\"Contract Lifecycle\": {\"Execution Date\": \"2025-03-14\"}}" >>,
     value |-> JObj("Contract Lifecycle" :> JObj("Execution Date" :> JStr("2025-03-14")))]

EmptyDoc == [lines |-> << "{}" >>, value |-> EmptyDict]

CategoryNullDoc ==
    [lines |-> << "{", "  \"Org Details\": null", "}" >>,
     value |-> JObj("Org Details" :> JNull)]

ScoreNullDoc ==
    [lines |-> << "{\"Finance Terms\": {\"Currency\": {",
                  "  \"extracted_value\": \"USD\", \"match_flag\": \"flag_for_review\",",
                  "  \"validation\": {\"score\": null, \"status\": \"warning\"}",
                  "}}}" >>,
     value |-> JObj("Finance Terms" :> JObj("Currency" :>
                  JObj([extracted_value |-> JStr("USD"),
                        match_flag |-> JStr("flag_for_review"),
                        validation |-> JObj([score |-> JNull, status |-> JStr("warning")])])))]

NotesNullDoc ==
    [lines |-> << "{\"Finance Terms\": {\"Currency\": {",
                  "  \"extracted_value\": \"USD\", \"match_flag\": \"not_found\",",
                  "  \"validation\": {\"score\": 10, \"status\": \"warning\", \"notes\": null}",
                  "}}}" >>,
     value |-> JObj("Finance Terms" :> JObj("Currency" :>
                  JObj([extracted_value |-> JStr("USD"),
                        match_flag |-> JStr("not_found"),
                        validation |-> JObj([score |-> JInt(10), status |-> JStr("warning"),
                                             notes |-> JNull])])))]

ScoreTextDoc ==
    [lines |-> << "{\"Finance Terms\": {\"Currency\": {\"validation\": {\"score\": \"high\"}}}}" >>,
     value |-> JObj("Finance Terms" :> JObj("Currency" :>
                  JObj([validation |-> JObj([score |-> JStr("high")])])))]

OutOfRangeDoc ==
    [lines |-> << "{",
                  "\"Finance Terms\": {\"Contract Value\": {\"extracted_value\": 12.5,",
                  "  \"match_flag\": \"exact\", \"validation\": {\"score\": 150, \"status\": \"ok\"}},",
                  " \"Currency\": [\"USD\", \"EUR\"], \"Vendor\": true},",
                  "\"Summary\": \"n/a\"",
                  "}" >>,
     value |-> JObj(("Finance Terms" :> JObj(
                        ("Contract Value" :>
                            JObj([extracted_value |-> JFloat(125),
                                  match_flag |-> JStr("exact"),
                                  validation |-> JObj([score |-> JInt(150),
                                                       status |-> JStr("ok")])]))
                        @@ ("Currency" :> JList(<<JStr("USD"), JStr("EUR")>>))
                        @@ ("Vendor" :> JBool(TRUE))))
                    @@ ("Summary" :> JStr("n/a")))]

ArrayDoc == [lines |-> << "[1, -2]" >>, value |-> JList(<<JInt(1), JInt(-2)>>)]
NumberDoc == [lines |-> << "42" >>, value |-> JInt(42)]
StringDoc == [lines |-> << "\"n/a\"" >>, value |-> JStr("n/a")]
NullDoc == [lines |-> << "null" >>, value |-> JNull]

\* JSON documents that are objects
ObjectDocs ==
    {GoodDoc, LegacyDoc, EmptyDoc, CategoryNullDoc, ScoreNullDoc, NotesNullDoc,
     ScoreTextDoc, OutOfRangeDoc}

\* JSON documents that are not objects
ScalarDocs == {ArrayDoc, NumberDoc, StringDoc, NullDoc}

\* texts that are not JSON
NonJsonLines ==
    { << "I am sorry, I cannot process this document." >>,
      << "" >>,
      << "{\"Org Details\": {", "  \"Organization Name\": {\"extracted_value\": \"Ac" >>,
      << "The result is {\"Org Details\": {}}" >>,
      << "{'Org Details': None}" >> }

\* The ways a payload is laid out in the response text.
Wrap(style, lines) ==
    CASE style = "plain"  -> lines
      [] style = "padded" -> << "", "  " >> \o lines \o << " ", "" >>
      [] style = "fenced" -> << FENCE \o "json" >> \o lines \o << FENCE >>
      [] style = "fenced_commented" ->
            << FENCE, "Here is the extracted metadata:" >> \o lines
                \o << "Let me know if anything is missing.", FENCE >>
      [] style = "fenced_trailing" ->
            << FENCE \o "json" >> \o lines \o << FENCE, "", "I hope this helps!" >>
      [] style = "fenced_brace_comment" ->
            << FENCE, "Values in {braces} are placeholders." >> \o lines \o << FENCE >>
      [] style = "prose_then_fence" ->
            << "Here is the JSON:", FENCE \o "json" >> \o lines \o << FENCE >>

\* layouts that start with a code fence and keep commentary free of braces
FencedStyles == {"fenced", "fenced_commented", "fenced_trailing"}
WrapStyles == {"plain", "padded", "fenced_brace_comment", "prose_then_fence"} \cup FencedStyles

ResponseText(style, lines) == JoinLines(Wrap(style, lines))

\* every layout of three payloads; every payload plain; every object and
\* every non-JSON text fenced
SampleResponses ==
    {ResponseText(w, l) : w \in WrapStyles,
                          l \in {GoodDoc.lines, ArrayDoc.lines,
                                 << "I am sorry, I cannot process this document." >>}}
        \cup {ResponseText("plain", d.lines) : d \in ObjectDocs \cup ScalarDocs}
        \cup {ResponseText("plain", l) : l \in NonJsonLines}
        \cup {ResponseText(w, d.lines) : w \in FencedStyles, d \in ObjectDocs}
        \cup {ResponseText("fenced", l) : l \in NonJsonLines}

\* The answers drawn after a retry: what follows an answer (parse, validate,
\* normalize) does not read the attempt number, so the layouts and payloads
\* are all explored on the first attempt and three of them on later ones.
RetryResponses ==
    {ResponseText("fenced_commented", GoodDoc.lines),
     ResponseText("plain", ArrayDoc.lines),
     ResponseText("plain", << "I am sorry, I cannot process this document." >>)}

RECURSIVE JsonDumps(_)
RECURSIVE DumpElements(_)
RECURSIVE DumpMembers(_, _)
DumpElements(s) ==
    IF Len(s) = 0 THEN ""
    ELSE IF Len(s) = 1 THEN JsonDumps(s[1])
    ELSE JsonDumps(s[1]) \o ", " \o DumpElements(Tail(s))

DumpMembers(f, keys) ==
    IF keys = {} THEN ""
    ELSE LET k == CHOOSE k \in keys : TRUE
         IN  "\"" \o k \o "\": " \o JsonDumps(f[k])
                 \o (IF keys = {k} THEN "" ELSE ", " \o DumpMembers(f, keys \ {k}))

\* the JSON text of a value (strings of the samples need no escaping)
JsonDumps(x) ==
    CASE x.t = "null"  -> "null"
      [] x.t = "bool"  -> IF x.v THEN "true" ELSE "false"
      [] x.t = "list"  -> "[" \o DumpElements(x.v) \o "]"
      [] x.t = "obj"   -> "{" \o DumpMembers(x.v, DOMAIN x.v) \o "}"
      [] x.t = "str"   -> "\"" \o x.v \o "\""
      [] OTHER         -> PyRepr(x)

\* the categories one of which the LLM's answer leaves out
OmittedCategories == {"Org Details", "Legal Terms"}

\* complete answers with one category left out
OmissionResponses == {JsonDumps(AnswerWithout(c)) : c \in OmittedCategories}

\* The short answers drawn while extract_metadata runs: a fenced and a plain
\* object, an empty object, an object normalize rejects, and a refusal.
CoordinatorResponses ==
    {ResponseText("fenced", GoodDoc.lines),
     ResponseText("plain", LegacyDoc.lines),
     ResponseText("plain", EmptyDoc.lines),
     ResponseText("plain", CategoryNullDoc.lines),
     ResponseText("plain", << "I am sorry, I cannot process this document." >>)}

\* The answers the transport can give on attempt number n.  While
\* extract_metadata runs the short answers are drawn everywhere, and the
\* complete ones on the first attempt of the text_llm and multimodal modes
\* (the client treats an answer alike in every mode and on every attempt).
ResponsesAt(n) ==
    IF cpc # "idle"
    THEN IF n = 0 /\ llm_mode \in {"text_llm", "multimodal"}
         THEN CoordinatorResponses \cup OmissionResponses
         ELSE CoordinatorResponses
    ELSE IF n = 0 THEN SampleResponses ELSE RetryResponses

(***************************************************************************)
(* ai/gemini_client.py: extract_metadata_from_text / _from_image /         *)
(* _multimodal.  One step per transport call and per sleep; what follows   *)
(* the transport's answer (parse, validate, normalize) is one step.        *)
(***************************************************************************)
Operations ==
    {"extract_metadata_from_text", "extract_metadata_from_image",
     "extract_metadata_multimodal"}

Init ==
    /\ cfg \in [max_field_length : {MAX_FIELD_LENGTH_DEFAULT},
                 max_retries : RetryCfgs,
                 initial_delay : InitialDelayCfgs,
                 max_delay : MaxDelayCfgs]
    /\ pc = "idle"
    /\ data = None
    /\ result = None
    /\ again = None
    /\ ClientIdle
    /\ CoordinatorIdle
    /\ RunnerIdle
    /\ PdfIdle
    /\ UploadsIdle

\* A client method is called: it builds the prompt and enters _call_with_retry.
StartCall(op) ==
    /\ pc = "idle"
    /\ operation' = op
    /\ pc' = "call"
    /\ UNCHANGED <<cfg, data, result, again, attempt, calls, sleeps, last_exception,
                   response, is_valid, error, xvars, jvars, pvars, uvars>>

\* api_call() answers text: _call_with_retry returns it, the answer is parsed,
\* validated (a failure is only logged) and normalized.  An exception raised
\* on the way is wrapped in an LLMError by the method's "except Exception".
ApiCallReturns(text) ==
    /\ pc = "call"
    /\ text \in ResponsesAt(attempt)
    /\ calls' = calls + 1
    /\ response' = JStr(text)
    /\ last_exception' = None
    /\ \E metadata \in {ParseJsonResponse(text, cfg.max_field_length)} :
       \E normalized \in {Normalize(metadata, cfg.max_field_length)} :
           /\ data' = metadata
           /\ is_valid' = Validate(metadata, cfg.max_field_length)
           /\ IF IsRaise(normalized)
              THEN /\ result' = Raise("LLMError")
                   /\ error' = [raised_by |-> operation, cause |-> normalized.exc]
                   /\ pc' = "raised"
              ELSE /\ result' = normalized
                   /\ error' = None
                   /\ pc' = "returned"
    /\ UNCHANGED <<cfg, again, operation, attempt, sleeps, xvars, jvars, pvars, uvars>>

\* api_call() raises e: on the last attempt, or when e is not to be retried,
\* LLMError is raised; otherwise the loop goes on to sleep.
ApiCallRaises(e) ==
    /\ pc = "call"
    /\ calls' = calls + 1
    /\ last_exception' = e
    /\ IF IsLastAttempt(attempt, cfg.max_retries) \/ ~ShouldRetry(e)
       THEN /\ result' = Raise("LLMError")
            /\ error' = [raised_by |-> "_call_with_retry",
                         operation |-> operation,
                         attempts |-> attempt + 1,
                         exception_type |-> FullExceptionName(e)]
            /\ pc' = "raised"
       ELSE /\ pc' = "sleep"
            /\ UNCHANGED <<result, error>>
    /\ UNCHANGED <<cfg, data, again, operation, attempt, sleeps, response, is_valid,
                   xvars, jvars, pvars, uvars>>

\* time.sleep(delay), then the next iteration of the loop
Sleep ==
    /\ pc = "sleep"
    /\ sleeps' = Append(sleeps, BackoffDelay(cfg.initial_delay, cfg.max_delay, attempt))
    /\ attempt' = attempt + 1
    /\ pc' = "call"
    /\ UNCHANGED <<cfg, data, result, again, operation, calls, last_exception,
                   response, is_valid, error, xvars, jvars, pvars, uvars>>

Next ==
    \/ \E op \in Operations : StartCall(op)
    \/ \E text \in SampleResponses : ApiCallReturns(text)
    \/ \E e \in SampleExceptions : ApiCallRaises(e)
    \/ Sleep

Spec == Init /\ [][Next]_vars

(***************************************************************************)
(* extractors/extraction_coordinator.py: extract_metadata.  One step for   *)
(* _extract_text, one for the dispatch of _process_with_llm up to its      *)
(* first client call, the client's steps above, and one step for what      *)
(* follows each client call.                                               *)
(***************************************************************************)
LlmModes == {"text_llm", "vision_llm", "multimodal", "dual_llm", "legacy"}

\* documents: the path's suffix and what is at the path
FileConditions == {"ok", "missing", "not_a_file", "empty", "unreadable", "encrypted"}
Files == [suffix : {".pdf", ".docx", ".txt"}, condition : FileConditions]

\* BaseExtractor.validate_file
ValidateFile(f) ==
    CASE f.condition = "missing"    -> Raise("FileNotFoundError")
      [] f.condition = "not_a_file" -> Raise("ValueError")
      [] f.condition = "empty"      -> Raise("ValueError")
      [] OTHER                      -> JBool(TRUE)

\* The exceptions _extract_text can raise for f; {} when the extraction succeeds.
\* Opening a .docx that is not a readable package raises what the library
\* raises, which the extractor logs and re-raises.
ExtractTextRaises(f) ==
    IF f.suffix \notin {".pdf", ".docx"} THEN {Raise("FileError")}
    ELSE IF IsRaise(ValidateFile(f)) THEN {ValidateFile(f)}
    ELSE IF f.suffix = ".pdf"
         THEN CASE f.condition = "encrypted"  -> {Raise("FileError")}
                [] f.condition = "unreadable" -> {Raise("ExtractionError")}
                [] OTHER                      -> {}
         ELSE IF f.condition \in {"unreadable", "encrypted"}
              THEN {Raise("PermissionError"), Raise("PackageNotFoundError")}
              ELSE {}

\* an image page as _extract_mixed records it: (page_num + 1, img_bytes)
ImagePage(n) == [page_num |-> n, img_bytes |-> "png of page " \o NatToStr(n)]

\* metadata["image_pages_bytes"]: the key is set by _extract_mixed only
ImagePagesOfPdf ==
    {Absent, JNull, JList(<<>>), JList(<<ImagePage(2)>>),
     JList(<<ImagePage(2), ImagePage(MaxPageNum)>>)}

SampleTexts == {"", "MSA", "Master Services Agreement"}

\* what _extract_text can return for f
Bundles(f) ==
    [raw_text : SampleTexts,
     image_pages_bytes : IF f.suffix = ".pdf" THEN ImagePagesOfPdf ELSE {Absent}]

\* extraction_result.metadata.get("image_pages_bytes", [])
ImagePagesBytes(b) ==
    IF b.image_pages_bytes = Absent THEN JList(<<>>) ELSE b.image_pages_bytes

\* [img_bytes for _, img_bytes in image_pages_bytes]
ImgBytesList(image_pages_bytes) ==
    [i \in DOMAIN image_pages_bytes.v |-> image_pages_bytes.v[i].img_bytes]

\* Variant of TextRequest: the text is sent whole.
TextRequestUncut(text, max_text_length) ==
    [method |-> "extract_metadata_from_text", endpoint |-> "text",
     text |-> text, images |-> <<>>]

\* extract_metadata_from_text: text[:MAX_TEXT_LENGTH] goes to the text model
TextRequest(text, max_text_length) ==
    [method |-> "extract_metadata_from_text", endpoint |-> "text",
     text |-> SubSeq(text, 1, Min(Len(text), max_text_length)), images |-> <<>>]

\* Variant of ImageRequest: every image is sent.
ImageRequestAll(img_bytes_list) ==
    [method |-> "extract_metadata_from_image", endpoint |-> "vision",
     text |-> "", images |-> img_bytes_list]

\* extract_metadata_from_image(img_bytes_list[0]): one image goes to the vision model
ImageRequest(img_bytes_list) ==
    [method |-> "extract_metadata_from_image", endpoint |-> "vision",
     text |-> "", images |-> << img_bytes_list[1] >>]

\* Variant of MultimodalRequest: only the first image is sent.
MultimodalRequestFirstImage(text, img_bytes_list) ==
    [method |-> "extract_metadata_multimodal", endpoint |-> "vision",
     text |-> text, images |-> << img_bytes_list[1] >>]

\* extract_metadata_multimodal(text_content, img_bytes_list)
MultimodalRequest(text, img_bytes_list) ==
    [method |-> "extract_metadata_multimodal", endpoint |-> "vision",
     text |-> text, images |-> img_bytes_list]

\* raise exc(...) from cause
RaiseFrom(exc, cause) == [t |-> "raise", exc |-> exc, cause |-> cause]

\* One loop of the dual_llm merge: every field of metadata whose value is
\* truthy and differs from "Not Found" is written over merged's.
Overlay(merged, metadata) ==
    LET taken(c) == IF c \in DOMAIN metadata.v /\ IsDict(metadata.v[c])
                    THEN {f \in DOMAIN metadata.v[c].v :
                              /\ Truthy(metadata.v[c].v[f])
                              /\ metadata.v[c].v[f] # JStr(NOT_FOUND_VALUE)}
                    ELSE {}
        kept(c) == IF c \in DOMAIN merged.v THEN DOMAIN merged.v[c].v ELSE {}
    IN  JObj([c \in DOMAIN merged.v \cup {k \in DOMAIN metadata.v : taken(k) # {}} |->
                 JObj([f \in kept(c) \cup taken(c) |->
                          IF f \in taken(c) THEN metadata.v[c].v[f]
                          ELSE merged.v[c].v[f]])])

\* Variant of MergeDual: the merge starts from an empty dict.
MergeDualNoBase(text_md, vision_md, max_len) ==
    Overlay(Overlay(EmptyDict, text_md), vision_md)

\* dual_llm: the empty schema, overlaid with the text result, then the vision result
MergeDual(text_md, vision_md, max_len) ==
    Overlay(Overlay(GetEmptySchema(max_len), text_md), vision_md)

InitCoordinator ==
    /\ cfg \in [max_field_length : {MAX_FIELD_LENGTH_DEFAULT},
                 max_retries : CoordinatorRetryCfgs,
                 initial_delay : {API_RETRY_INITIAL_DELAY_DEFAULT},
                 max_delay : {API_RETRY_MAX_DELAY_DEFAULT},
                 max_text_length : {SmallMaxTextLength, MAX_TEXT_LENGTH_DEFAULT}]
    /\ pc = "idle"
    /\ data = None
    /\ result = None
    /\ again = None
    /\ ClientIdle
    /\ CoordinatorIdle
    /\ RunnerIdle
    /\ PdfIdle
    /\ UploadsIdle

\* a client method is entered with a fresh retry loop
BeginCall(request) ==
    /\ requests' = Append(requests, request)
    /\ operation' = request.method
    /\ pc' = "call"
    /\ attempt' = 0
    /\ calls' = 0
    /\ sleeps' = <<>>
    /\ last_exception' = None
    /\ response' = None
    /\ is_valid' = None
    /\ error' = None
    /\ result' = None
    /\ data' = None

\* the client is left alone
NoCall ==
    UNCHANGED <<requests, operation, pc, attempt, calls, sleeps, last_exception,
                response, is_valid, error, result, data>>

\* extract_metadata(file_path, llm_processing_mode = mode) runs _extract_text
ExtractText(f, mode, b) ==
    /\ cpc = "idle"
    /\ b \in Bundles(f)
    /\ file' = f
    /\ llm_mode' = mode
    /\ \/ /\ ExtractTextRaises(f) = {}
          /\ bundle' = b
          /\ cpc' = "process_with_llm"
          /\ UNCHANGED outcome
       \/ /\ outcome' \in ExtractTextRaises(f)
          /\ cpc' = "raised"
          /\ UNCHANGED bundle
    /\ NoCall
    /\ UNCHANGED <<cfg, again, text_metadata, vision_metadata, jvars, pvars, uvars>>

\* _process_with_llm returns get_empty_schema() without a call
ReturnEmptySchema ==
    /\ outcome' = GetEmptySchema(cfg.max_field_length)
    /\ cpc' = "returned"
    /\ NoCall

\* llm_mode == "text_llm", up to the client call
TextLlm ==
    /\ cpc = "process_with_llm"
    /\ llm_mode = "text_llm"
    /\ IF bundle.raw_text = ""
       THEN ReturnEmptySchema
       ELSE /\ BeginCall(TextRequest(bundle.raw_text, cfg.max_text_length))
            /\ cpc' = "text_llm_call"
            /\ UNCHANGED outcome
    /\ UNCHANGED <<cfg, again, file, llm_mode, bundle, text_metadata, vision_metadata, jvars, pvars, uvars>>

\* llm_mode == "text_llm", after the client call: the LLMError handler builds
\* the ExtractionError's details with len(image_pages_bytes)
TextLlmCallEnds ==
    /\ cpc = "text_llm_call"
    /\ pc \in {"returned", "raised"}
    /\ IF pc = "returned"
       THEN /\ outcome' = result
            /\ cpc' = "returned"
       ELSE /\ outcome' = IF IsRaise(PyLen(ImagePagesBytes(bundle)))
                          THEN PyLen(ImagePagesBytes(bundle))
                          ELSE RaiseFrom("ExtractionError", error)
            /\ cpc' = "raised"
    /\ NoCall
    /\ UNCHANGED <<cfg, again, file, llm_mode, bundle, text_metadata, vision_metadata, jvars, pvars, uvars>>

\* llm_mode == "vision_llm", up to the client call
VisionLlm ==
    /\ cpc = "process_with_llm"
    /\ llm_mode = "vision_llm"
    /\ IF ~Truthy(ImagePagesBytes(bundle))
       THEN ReturnEmptySchema
       ELSE /\ BeginCall(ImageRequest(ImgBytesList(ImagePagesBytes(bundle))))
            /\ cpc' = "llm_call"
            /\ UNCHANGED outcome
    /\ UNCHANGED <<cfg, again, file, llm_mode, bundle, text_metadata, vision_metadata, jvars, pvars, uvars>>

\* llm_mode == "multimodal", up to the client call
Multimodal ==
    /\ cpc = "process_with_llm"
    /\ llm_mode = "multimodal"
    /\ IF ~Truthy(ImagePagesBytes(bundle)) /\ bundle.raw_text = ""
       THEN ReturnEmptySchema
       ELSE /\ IF Truthy(ImagePagesBytes(bundle))
               THEN BeginCall(MultimodalRequest(bundle.raw_text,
                                                ImgBytesList(ImagePagesBytes(bundle))))
               ELSE BeginCall(TextRequest(bundle.raw_text, cfg.max_text_length))
            /\ cpc' = "llm_call"
            /\ UNCHANGED outcome
    /\ UNCHANGED <<cfg, again, file, llm_mode, bundle, text_metadata, vision_metadata, jvars, pvars, uvars>>

\* any other llm_mode: the legacy text behaviour
LegacyMode ==
    /\ cpc = "process_with_llm"
    /\ llm_mode \notin {"text_llm", "vision_llm", "multimodal", "dual_llm"}
    /\ IF bundle.raw_text = ""
       THEN ReturnEmptySchema
       ELSE /\ BeginCall(TextRequest(bundle.raw_text, cfg.max_text_length))
            /\ cpc' = "llm_call"
            /\ UNCHANGED outcome
    /\ UNCHANGED <<cfg, again, file, llm_mode, bundle, text_metadata, vision_metadata, jvars, pvars, uvars>>

\* vision_llm, multimodal and legacy, after the client call:
\* "except LLMError as e: raise ExtractionError(...) from e"
LlmCallEnds ==
    /\ cpc = "llm_call"
    /\ pc \in {"returned", "raised"}
    /\ IF pc = "returned"
       THEN /\ outcome' = result
            /\ cpc' = "returned"
       ELSE /\ outcome' = RaiseFrom("ExtractionError", error)
            /\ cpc' = "raised"
    /\ NoCall
    /\ UNCHANGED <<cfg, again, file, llm_mode, bundle, text_metadata, vision_metadata, jvars, pvars, uvars>>

\* dual_llm from the vision part on: the vision call is begun when there are
\* images, otherwise the results are merged
DualVisionPart(text_md) ==
    IF Truthy(ImagePagesBytes(bundle))
    THEN /\ BeginCall(ImageRequest(ImgBytesList(ImagePagesBytes(bundle))))
         /\ cpc' = "dual_vision_call"
         /\ UNCHANGED outcome
    ELSE /\ outcome' = MergeDual(text_md, EmptyDict, cfg.max_field_length)
         /\ cpc' = "returned"
         /\ NoCall

\* llm_mode == "dual_llm", up to the first client call
DualLlm ==
    /\ cpc = "process_with_llm"
    /\ llm_mode = "dual_llm"
    /\ IF bundle.raw_text # ""
       THEN /\ BeginCall(TextRequest(bundle.raw_text, cfg.max_text_length))
            /\ cpc' = "dual_text_call"
            /\ UNCHANGED outcome
       ELSE DualVisionPart(EmptyDict)
    /\ UNCHANGED <<cfg, again, file, llm_mode, bundle, text_metadata, vision_metadata, jvars, pvars, uvars>>

\* dual_llm after the text call: an LLMError is logged and text_metadata stays {}
DualTextCallEnds ==
    /\ cpc = "dual_text_call"
    /\ pc \in {"returned", "raised"}
    /\ \E text_md \in {IF pc = "returned" THEN result ELSE EmptyDict} :
          /\ text_metadata' = text_md
          /\ DualVisionPart(text_md)
    /\ UNCHANGED <<cfg, again, file, llm_mode, bundle, vision_metadata, jvars, pvars, uvars>>

\* dual_llm after the vision call: an LLMError is logged and vision_metadata
\* stays {}; then the merge
DualVisionCallEnds ==
    /\ cpc = "dual_vision_call"
    /\ pc \in {"returned", "raised"}
    /\ \E vision_md \in {IF pc = "returned" THEN result ELSE EmptyDict} :
          /\ vision_metadata' = vision_md
          /\ outcome' = MergeDual(text_metadata, vision_md, cfg.max_field_length)
    /\ cpc' = "returned"
    /\ NoCall
    /\ UNCHANGED <<cfg, again, file, llm_mode, bundle, text_metadata, jvars, pvars, uvars>>

NextCoordinator ==
    \/ \E f \in Files, mode \in LlmModes, b \in UNION {Bundles(g) : g \in Files} :
           ExtractText(f, mode, b)
    \/ TextLlm
    \/ TextLlmCallEnds
    \/ VisionLlm
    \/ Multimodal
    \/ LegacyMode
    \/ LlmCallEnds
    \/ DualLlm
    \/ DualTextCallEnds
    \/ DualVisionCallEnds
    \/ \E text \in CoordinatorResponses \cup OmissionResponses : ApiCallReturns(text)
    \/ \E e \in CoordinatorExceptions : ApiCallRaises(e)
    \/ Sleep

SpecCoordinator == InitCoordinator /\ [][NextCoordinator]_vars

(***************************************************************************)
(* Properties of the normalizer (checked under SpecNormalize).             *)
(***************************************************************************)

\* r has exactly the schema's categories and, under each, exactly its fields
SchemaComplete(r) ==
    /\ IsDict(r)
    /\ DOMAIN r.v = Categories
    /\ \A c \in Categories : IsDict(r.v[c]) /\ DOMAIN r.v[c].v = FieldsOf(c)

\* the field record of a normalized dict
OutField(r, c, f) == r.v[c].v[f].v

\* the value d gives under key k of field c.f, Absent when there is none
InPart(d, c, f, k) ==
    IF IsDict(d) /\ c \in DOMAIN d.v /\ IsDict(d.v[c]) /\ f \in DOMAIN d.v[c].v
       /\ IsDict(d.v[c].v[f]) /\ k \in DOMAIN d.v[c].v[f].v
    THEN d.v[c].v[f].v[k] ELSE Absent

InScore(d, c, f) ==
    LET val == InPart(d, c, f, "validation")
    IN  IF IsDict(val) /\ "score" \in DOMAIN val.v THEN val.v["score"] ELSE Absent

IsEmptyDict(d) == IsDict(d) /\ DOMAIN d.v = {}

Returned == pc = "normalized" /\ ~IsRaise(result)

SentinelField(fld) ==
    /\ fld.extracted_value = JStr("Not Found")
    /\ fld.match_flag = JStr("not_found")
    /\ fld.validation.v["status"] = JStr("not_found")
    /\ fld.validation.v["score"] = JInt(0)

\* C2 (as claimed): for every dictionary d, malformed partial dicts included,
\* normalize(d) returns a dict with exactly the schema's categories and, under
\* each category, exactly that category's fields.
C2_NormalizeAlwaysSchemaComplete ==
    (pc = "normalized" /\ IsDict(data)) => SchemaComplete(result)

\* C3: normalize is idempotent: normalize(normalize(d)) has the same outcome
\* as normalize(d), for every input d.
C3_NormalizeIdempotent ==
    pc = "renormalized" => again = result

\* C3 witness: an answer whose one field had its extracted_value truncated and
\* whose other fields were all filled in has been normalized twice.
C3_Witness ==
    /\ pc = "renormalized"
    /\ cfg.max_field_length = 3
    /\ data = JObj("Org Details" :> JObj("Organization Name" :>
                  MkField(JStr("abcdef"), JStr("same_as_template"), GoodValidation)))
    /\ ~IsRaise(again)
    /\ OutField(again, "Org Details", "Organization Name").extracted_value = JStr("abc")

C6_ScoreClamped ==
    Returned =>
        \A s \in Slots :
            LET given == InScore(data, s[1], s[2])
                out == OutField(result, s[1], s[2]).validation.v["score"]
            IN  /\ out.t = "int" /\ out.v \in 0..100
                /\ given.t = "int" =>
                       out.v = IF given.v < 0 THEN 0 ELSE IF given.v > 100 THEN 100 ELSE given.v

\* C6 witness: a score of 150 has been normalized, to 100.
C6_Witness ==
    /\ Returned
    /\ InScore(data, "Org Details", "Organization Name") = JInt(150)
    /\ OutField(result, "Org Details", "Organization Name").validation.v["score"] = JInt(100)

(***************************************************************************)
(* Properties of a client call (checked under Spec).                       *)
(***************************************************************************)

\* the call is over: the method returned or raised
Finished == pc \in {"returned", "raised"}

\* the call ended inside _call_with_retry, on a transport failure
TransportFailure == pc = "raised" /\ error.raised_by = "_call_with_retry"

\* the response is payload l laid out in one of the styles of ws
ResponseIs(ws, l) == \E w \in ws : response = JStr(ResponseText(w, l))

\* C1 (as claimed): whatever text the transport answers, the client method
\* returns a schema-complete dictionary; a call raises only on a transport
\* failure.
C1_GarbageNeverRaises ==
    /\ pc = "returned" => SchemaComplete(result)
    /\ pc = "raised" => error.raised_by = "_call_with_retry"

\* C7: a response that starts with a code fence, with commentary lines free of
\* braces around the JSON object, is decoded to that object's value; a text
\* that is not JSON, plain or fenced, is parsed to the empty sentinel schema
\* and the call returns it.
C7_FencedJsonDecoded ==
    Finished /\ response # None =>
        /\ \A d \in ObjectDocs :
               ResponseIs(FencedStyles \cup {"plain", "padded"}, d.lines) => data = d.value
        /\ \A l \in NonJsonLines :
               ResponseIs(FencedStyles \cup {"plain", "padded"}, l) =>
                   /\ data = GetEmptySchema(cfg.max_field_length)
                   /\ pc = "returned"
                   /\ result = data

\* C7 witness: the complete answer, fenced with a commentary line before and
\* after it, has been decoded, and so has the nested object with an
\* out-of-range score, fenced.
C7_Witness ==
    /\ pc = "returned"
    /\ response = JStr(ResponseText("fenced_commented", GoodDoc.lines))
    /\ data = GoodDoc.value
    /\ OutField(result, "Org Details", "Organization Name").extracted_value = JStr("Acme")

\* C8: a call makes at most API_MAX_RETRIES + 1 transport attempts and at most
\* API_MAX_RETRIES sleeps; every sleep is followed by an attempt, so a
\* finished call has slept exactly once less than it has attempted.
C8_AttemptsAndSleepsBounded ==
    /\ calls <= cfg.max_retries + 1
    /\ Len(sleeps) <= cfg.max_retries
    /\ pc = "sleep" => calls <= cfg.max_retries
    /\ Finished => Len(sleeps) = calls - 1

\* C8 witness: with the default 3 retries, a call has failed on its 4th
\* attempt after 3 sleeps.
C8_Witness ==
    /\ TransportFailure
    /\ cfg.max_retries = API_MAX_RETRIES_DEFAULT
    /\ calls = API_MAX_RETRIES_DEFAULT + 1
    /\ Len(sleeps) = API_MAX_RETRIES_DEFAULT
    /\ error.attempts = calls

\* the failures the specification calls transient, for the sampled exceptions
RecognisedTransient(e) ==
    \/ \E i \in DOMAIN API_RETRY_EXCEPTIONS :
           e.module \o "." \o e.name = API_RETRY_EXCEPTIONS[i]
    \/ \E lowered \in {Lower(e.msg)} :
           \E k \in {"rate limit", "quota", "429", "503", "502", "500", "timeout",
                     "deadline", "unavailable", "retry"} : Contains(lowered, k)

\* C9: the loop goes on to sleep only after a failure recognised as
\* transient; after any other failure the call raises at once, that failure
\* being its last attempt, with no sleep after it.
C9_RetryOnlyTransient ==
    /\ [](pc = "sleep" => RecognisedTransient(last_exception))
    /\ []((pc \in {"sleep", "raised"} /\ last_exception # None
               /\ ~RecognisedTransient(last_exception))
              => /\ TransportFailure
                 /\ error.attempts = calls
                 /\ Len(sleeps) = calls - 1)
    /\ [][(pc = "call" /\ calls' = calls + 1 /\ last_exception' # None
            /\ ~RecognisedTransient(last_exception'))
          => (pc' = "raised" /\ sleeps' = sleeps /\ attempt' = attempt)]_vars

\* C9 witness: a ValueError on the first attempt ended the call at once.
C9_Witness ==
    /\ TransportFailure
    /\ last_exception.name = "ValueError"
    /\ calls = 1
    /\ sleeps = << >>
    /\ cfg.max_retries = API_MAX_RETRIES_DEFAULT

\* C10: a call that returns after k failed attempts has made k + 1 attempts
\* and k sleeps, the i-th sleep (i = 0, 1, ...) lasting
\* min(initial_delay * 2^i, max_delay): the delays never decrease and never
\* exceed the maximum delay.
C10_BackoffSchedule ==
    /\ \A i \in DOMAIN sleeps :
           /\ sleeps[i] = Min(cfg.initial_delay * (2 ^ (i - 1)), cfg.max_delay)
           /\ sleeps[i] <= cfg.max_delay
           /\ i > 1 => sleeps[i] >= sleeps[i - 1]
    /\ pc = "returned" => calls = Len(sleeps) + 1 /\ Len(sleeps) = attempt

\* C10 witness: two "429" failures, then an answer: 2 sleeps, under a maximum
\* delay that caps the second.
C10_Witness ==
    /\ pc = "returned"
    /\ calls = 3
    /\ Len(sleeps) = 2
    /\ cfg.initial_delay = 2
    /\ cfg.max_delay = SmallMaxDelay
    /\ sleeps = <<2, SmallMaxDelay>>
    /\ data = GoodDoc.value

(***************************************************************************)
(* Properties of extract_metadata (checked under SpecCoordinator).         *)
(***************************************************************************)

\* extract_metadata raised after a client call that ended in an LLMError
LlmFailureRaised == cpc = "raised" /\ pc = "raised" /\ requests # <<>>

\* C11 (as claimed): when an LLM call ends with a non-transient failure or
\* with its retries exhausted, extract_metadata in text_llm, vision_llm and
\* multimodal modes raises an ExtractionError that carries the LLMError with
\* the attempt count (API_MAX_RETRIES + 1 when the retries were exhausted) and
\* the last underlying error; no other kind of exception is raised.
C11_LlmFailureIsExtractionError ==
    (LlmFailureRaised /\ llm_mode \in {"text_llm", "vision_llm", "multimodal"}
        /\ error.raised_by = "_call_with_retry")
    => /\ outcome.exc = "ExtractionError"
       /\ outcome.cause = error
       /\ error.attempts = calls
       /\ error.exception_type = FullExceptionName(last_exception)
       /\ ShouldRetry(last_exception) => error.attempts = cfg.max_retries + 1

\* the extracted_value d holds for field c.f when it is not the sentinel
NonSentinelValue(d, c, f) ==
    IF InPart(d, c, f, "extracted_value") \in {Absent, JStr(NOT_FOUND_VALUE)}
    THEN Absent
    ELSE InPart(d, c, f, "extracted_value")

\* C12 (as claimed): in dual_llm mode every field of the merged result takes
\* the vision result's value when that is not the sentinel, otherwise the text
\* result's value when that is not the sentinel, otherwise the sentinel.
C12_DualMergePrefersNonSentinel ==
    (cpc = "returned" /\ llm_mode = "dual_llm")
    => \A s \in Slots :
          InPart(outcome, s[1], s[2], "extracted_value") =
              IF NonSentinelValue(vision_metadata, s[1], s[2]) # Absent
              THEN NonSentinelValue(vision_metadata, s[1], s[2])
              ELSE IF NonSentinelValue(text_metadata, s[1], s[2]) # Absent
                   THEN NonSentinelValue(text_metadata, s[1], s[2])
                   ELSE JStr(NOT_FOUND_VALUE)

\* _extract_text succeeded and _process_with_llm has chosen what to do
Dispatched(mode) ==
    llm_mode = mode /\ bundle # None /\ cpc \notin {"idle", "process_with_llm"}

\* the one request of the text method: the text cut to MAX_TEXT_LENGTH, no image
OneTextRequest ==
    /\ Len(requests) = 1
    /\ requests[1].method = "extract_metadata_from_text"
    /\ requests[1].endpoint = "text"
    /\ requests[1].images = <<>>
    /\ Len(requests[1].text) = Min(Len(bundle.raw_text), cfg.max_text_length)
    /\ requests[1].text = SubSeq(bundle.raw_text, 1, Len(requests[1].text))

\* the image page of the bundle with the lowest page number
FirstImagePage ==
    CHOOSE p \in Range(ImagePagesBytes(bundle).v) :
        \A q \in Range(ImagePagesBytes(bundle).v) : p.page_num <= q.page_num

\* the field of the first of some results that has one
FieldOfFirst(results, c, f) ==
    LET given == {i \in DOMAIN results : ~IsEmptyDict(results[i])}
    IN  IF given = {} THEN GetEmptySchema(cfg.max_field_length).v[c].v[f]
        ELSE results[CHOOSE i \in given : \A j \in given : i <= j].v[c].v[f]

\* C13: in dual_llm mode a failure of the text call or of the vision call is
\* caught, never raised: extract_metadata raises only when the text extraction
\* failed; the text call is made when there is text and the vision call (on the
\* first image) when there are images, whatever became of the text call; and
\* the result is schema-complete, each field being the vision call's when that
\* call succeeded, else the text call's when that succeeded, else the sentinel.
C13_DualFailuresCaught ==
    /\ (llm_mode = "dual_llm" /\ cpc = "raised") => (bundle = None /\ requests = <<>>)
    /\ (Dispatched("dual_llm") /\ cpc = "dual_vision_call")
           => /\ Len(requests) = 1 + (IF bundle.raw_text = "" THEN 0 ELSE 1)
              /\ requests[Len(requests)].method = "extract_metadata_from_image"
    /\ (Dispatched("dual_llm") /\ cpc = "returned")
           => /\ Len(requests) = (IF bundle.raw_text = "" THEN 0 ELSE 1)
                                 + (IF Truthy(ImagePagesBytes(bundle)) THEN 1 ELSE 0)
              /\ \A i \in DOMAIN requests :
                     requests[i].method =
                         IF i = 1 /\ bundle.raw_text # "" THEN "extract_metadata_from_text"
                         ELSE "extract_metadata_from_image"
              /\ SchemaComplete(outcome)
              /\ \A s \in Slots :
                     outcome.v[s[1]].v[s[2]] =
                         FieldOfFirst(<<vision_metadata, text_metadata>>, s[1], s[2])

\* C13 witness: both calls were made, the text call failed with its retries
\* exhausted, the vision call succeeded, and a schema-complete result came back.
C13_Witness ==
    /\ Dispatched("dual_llm")
    /\ cpc = "returned"
    /\ Len(requests) = 2
    /\ IsEmptyDict(text_metadata)
    /\ ~IsEmptyDict(vision_metadata)
    /\ SchemaComplete(outcome)
    /\ outcome = vision_metadata

\* C14: in text_llm mode, with empty text the result is the empty schema and no
\* call is made; with text exactly one text-endpoint call is made, carrying the
\* text (cut to MAX_TEXT_LENGTH) and no image, whatever images the bundle
\* holds; the call's result is returned, and the mode fails only when the call
\* failed.
C14_TextLlmOneTextCall ==
    Dispatched("text_llm")
    => IF bundle.raw_text = ""
       THEN /\ cpc = "returned"
            /\ outcome = GetEmptySchema(cfg.max_field_length)
            /\ requests = <<>>
            /\ calls = 0
       ELSE /\ OneTextRequest
            /\ cpc = "returned" => (pc = "returned" /\ outcome = result)
            /\ cpc = "raised" => pc = "raised"

\* C14 witness: a bundle with a long text and two image pages; one text call
\* carrying the cut text was made and its result returned.
C14_Witness ==
    /\ Dispatched("text_llm")
    /\ cpc = "returned"
    /\ Len(bundle.raw_text) > cfg.max_text_length
    /\ Truthy(ImagePagesBytes(bundle))
    /\ Len(ImagePagesBytes(bundle).v) = 2
    /\ Len(requests) = 1
    /\ requests[1].images = <<>>
    /\ SchemaComplete(outcome)

C16_MultimodalOneCall ==
    Dispatched("multimodal")
    => IF ~Truthy(ImagePagesBytes(bundle))
       THEN IF bundle.raw_text = ""
            THEN /\ cpc = "returned"
                 /\ outcome = GetEmptySchema(cfg.max_field_length)
                 /\ requests = <<>>
                 /\ calls = 0
            ELSE /\ OneTextRequest
                 /\ cpc = "returned" => (pc = "returned" /\ outcome = result)
                 /\ cpc = "raised" => (pc = "raised" /\ outcome.exc = "ExtractionError")
       ELSE /\ Len(requests) = 1
            /\ requests[1].method = "extract_metadata_multimodal"
            /\ requests[1].endpoint = "vision"
            /\ requests[1].text = bundle.raw_text
            /\ Len(requests[1].images) = Len(ImagePagesBytes(bundle).v)
            /\ \A i \in DOMAIN requests[1].images :
                   /\ requests[1].images[i] = ImagePagesBytes(bundle).v[i].img_bytes
                   /\ \A j \in DOMAIN requests[1].images :
                          i < j => ImagePagesBytes(bundle).v[i].page_num
                                       < ImagePagesBytes(bundle).v[j].page_num
            /\ cpc = "returned" => (pc = "returned" /\ outcome = result)

\* C16 witness: a bundle with text and two image pages; one multimodal call
\* carrying the text and both images was made and its result returned.
C16_Witness ==
    /\ Dispatched("multimodal")
    /\ cpc = "returned"
    /\ bundle.raw_text # ""
    /\ Truthy(ImagePagesBytes(bundle))
    /\ Len(requests) = 1
    /\ Len(requests[1].images) = 2
    /\ requests[1].text = bundle.raw_text
    /\ SchemaComplete(outcome)

\* the transport answered a complete answer with category c left out
OmissionAnswered(c) ==
    /\ cpc = "returned"
    /\ pc = "returned"
    /\ response = JStr(JsonDumps(AnswerWithout(c)))

\* C17: when the LLM answers valid JSON in which every field is well-formed but
\* one category is left out, the result of extract_metadata is schema-complete,
\* every field of the omitted category holds the sentinel values, and every
\* other field is as the LLM returned it.
C17_OmittedCategorySentinel ==
    \A c \in OmittedCategories :
        OmissionAnswered(c)
        => /\ SchemaComplete(outcome)
           /\ \A f \in FieldsOf(c) : SentinelField(OutField(outcome, c, f))
           /\ \A k \in Categories \ {c} : \A f \in FieldsOf(k) :
                  outcome.v[k].v[f] = AnswerWithout(c).v[k].v[f]

\* C17 witness: in multimodal mode the answer left out "Legal Terms"; the
\* result holds the sentinel under it and the answer's fields elsewhere.
C17_Witness ==
    /\ OmissionAnswered("Legal Terms")
    /\ llm_mode = "multimodal"
    /\ data = AnswerWithout("Legal Terms")
    /\ SentinelField(OutField(outcome, "Legal Terms", "Governing Law"))
    /\ outcome.v["Org Details"].v["Organization Name"] = GoodField

\* C20 (as claimed): extract_metadata raises FileError whenever the document
\* is missing, zero-length, unreadable, of an unsupported file type, or (for
\* PDFs) encrypted, and no other kind of exception for these cases.
C20_FileDefectsRaiseFileError ==
    (/\ file # None
     /\ \/ file.suffix \notin {".pdf", ".docx"}
        \/ file.condition \in {"missing", "empty", "unreadable"}
        \/ file.suffix = ".pdf" /\ file.condition = "encrypted")
    => (cpc = "raised" /\ outcome = Raise("FileError"))

(***************************************************************************)
(* The job runners: api/services/extraction_service.py process_extraction  *)
(* and main.py extract_single_file, over the extractions table of          *)
(* storage/database.py.  The core (ExtractionCoordinator.extract_metadata) *)
(* is one step that returns a result or raises.  Runs follow one another;  *)
(* jobs are created at any time.                                           *)
(***************************************************************************)
MkCondition(exc, msg) == [t |-> "raise", exc |-> exc, msg |-> msg]

\* validate_config() when GEMINI_API_KEY is not set
ConfigurationMissing ==
    MkCondition("ConfigurationError", "GEMINI_API_KEY not found in environment variables.")

\* extract_single_file when the job's stored file is gone
JobFileMissing == MkCondition("FileError", "File not found for job")

\* MAX_FIELD_LENGTH while jobs run: shorter than the sentinel "Not Found", so
\* that the runner's validate() rejects the core's results and normalizes them
SmallFieldLengthCfgs == {SmallFieldLength}

\* what the core returns under each MAX_FIELD_LENGTH: normalized results
CoreResults ==
    [n \in SmallFieldLengthCfgs |-> {GetEmptySchema(n), Normalize(GoodDoc.value, n)}]

\* What the runner stores for a result of the core: is_valid, error =
\* validator.validate(metadata); if not is_valid: metadata =
\* validator.normalize(metadata).  Tabulated over the core's results.
StoredMetadata ==
    [n \in SmallFieldLengthCfgs |->
        [o \in CoreResults[n] |-> IF Validate(o, n) THEN o ELSE Normalize(o, n)]]

\* what the core raises
CoreRaises ==
    {MkCondition("FileError", "PDF is encrypted/password-protected"),
     MkCondition("ExtractionError", "Failed to extract metadata using text LLM"),
     MkCondition("FileNotFoundError", "File not found")}

\* ExtractionDB.create_job: the row of a new job ("" stands for NULL)
NewJob(queued) ==
    [status |-> "pending", error_message |-> "", result |-> None, queued |-> queued]

\* ExtractionDB.update_job_status(job_id, status, error_message = error_message)
UpdateJobStatus(js, j, status, error_message) ==
    [js EXCEPT ![j].status = status,
               ![j].error_message = IF error_message # "" THEN error_message ELSE @]

\* ExtractionDB.complete_job(job_id, result_json_dict, ...)
CompleteJob(js, j, result_json_dict) ==
    [js EXCEPT ![j].status = "completed", ![j].result = result_json_dict]

\* Variant of ErrorMessage: the condition's message is dropped.
ErrorMessageGeneric(kind, e) == "Extraction failed"

\* the error_message a runner stores for exception e: both runners pass str(e)
\* for FileError and ExtractionError; for any other exception the API runner
\* passes "Unexpected error: " + str(e) and the CLI runner str(e)
ErrorMessage(kind, e) ==
    IF kind = "api" /\ e.exc \notin {"FileError", "ExtractionError"}
    THEN "Unexpected error: " \o e.msg
    ELSE e.msg

\* a runner's except handlers: the job is marked failed with the message
FailJob(js, j, kind, e) == UpdateJobStatus(js, j, "failed", ErrorMessage(kind, e))

MkRun(j, kind, at, core) ==
    [t |-> "run", job |-> j, kind |-> kind, pc |-> at, core |-> core]

\* no run is in progress
RunIdle == IF run = None THEN TRUE ELSE run.pc = "done"

InitJobs ==
    /\ cfg \in [max_field_length : SmallFieldLengthCfgs,
                 max_retries : {API_MAX_RETRIES_DEFAULT},
                 initial_delay : {API_RETRY_INITIAL_DELAY_DEFAULT},
                 max_delay : {API_RETRY_MAX_DELAY_DEFAULT}]
    /\ pc = "idle"
    /\ data = None
    /\ result = None
    /\ again = None
    /\ ClientIdle
    /\ CoordinatorIdle
    /\ RunnerIdle
    /\ PdfIdle
    /\ UploadsIdle

\* POST /extract: the job is created and process_extraction is queued
ApiCreateJob ==
    /\ Len(jobs) < MaxJobs
    /\ jobs' = Append(jobs, NewJob(TRUE))
    /\ UNCHANGED <<run, nvars, cvars, xvars, pvars, uvars>>

\* process_extraction(job_id) up to the core: validate_config(), then the
\* status becomes "processing"
ApiRunStarts(j, config_ok) ==
    /\ RunIdle
    /\ j \in DOMAIN jobs
    /\ jobs[j].queued
    /\ IF config_ok
       THEN /\ jobs' = [UpdateJobStatus(jobs, j, "processing", "") EXCEPT ![j].queued = FALSE]
            /\ run' = MkRun(j, "api", "extracting", None)
       ELSE /\ jobs' = [FailJob(jobs, j, "api", ConfigurationMissing) EXCEPT ![j].queued = FALSE]
            /\ run' = MkRun(j, "api", "done", ConfigurationMissing)
    /\ UNCHANGED <<nvars, cvars, xvars, pvars, uvars>>

\* extract_single_file(file) without job_id: validate_config() passed, the job
\* is created, its file copied and its status set to "pending"
CliCreatesJob ==
    /\ RunIdle
    /\ Len(jobs) < MaxJobs
    /\ jobs' = Append(jobs, NewJob(FALSE))
    /\ run' = MkRun(Len(jobs) + 1, "cli", "created", None)
    /\ UNCHANGED <<nvars, cvars, xvars, pvars, uvars>>

\* extract_single_file, new job: the status becomes "processing"
CliProcessing ==
    /\ run # None
    /\ run.pc = "created"
    /\ jobs' = UpdateJobStatus(jobs, run.job, "processing", "")
    /\ run' = [run EXCEPT !.pc = "extracting"]
    /\ UNCHANGED <<nvars, cvars, xvars, pvars, uvars>>

\* extract_single_file(file, job_id = j) up to the core: validate_config(),
\* the job's stored file is looked up, then the status becomes "processing"
CliRerun(j, config_ok, file_exists) ==
    /\ RunIdle
    /\ j \in DOMAIN jobs
    /\ IF ~config_ok
       THEN /\ jobs' = FailJob(jobs, j, "cli", ConfigurationMissing)
            /\ run' = MkRun(j, "cli", "done", ConfigurationMissing)
       ELSE IF ~file_exists
       THEN /\ jobs' = FailJob(jobs, j, "cli", JobFileMissing)
            /\ run' = MkRun(j, "cli", "done", JobFileMissing)
       ELSE /\ jobs' = UpdateJobStatus(jobs, j, "processing", "")
            /\ run' = MkRun(j, "cli", "extracting", None)
    /\ UNCHANGED <<nvars, cvars, xvars, pvars, uvars>>

\* The core returns or raises o; the runner validates the result, normalizes
\* it when it is not valid and completes the job, or marks the job failed.
\* The CLI's legacy flag writes the result to a file and stores None.
RunEnds(o, legacy) ==
    /\ run # None
    /\ run.pc = "extracting"
    /\ o \in CoreResults[cfg.max_field_length] \cup CoreRaises
    /\ legacy => run.kind = "cli"
    /\ IF IsRaise(o)
       THEN jobs' = FailJob(jobs, run.job, run.kind, o)
       ELSE jobs' = CompleteJob(jobs, run.job,
                               IF legacy THEN JNull
                               ELSE StoredMetadata[cfg.max_field_length][o])
    /\ run' = [run EXCEPT !.pc = "done", !.core = o]
    /\ UNCHANGED <<nvars, cvars, xvars, pvars, uvars>>

\* the core comes to an end
CoreEnds ==
    \E o \in CoreRaises \cup UNION {CoreResults[n] : n \in SmallFieldLengthCfgs},
       legacy \in BOOLEAN :
        RunEnds(o, legacy)

NextJobs ==
    \/ ApiCreateJob
    \/ \E j \in 1..MaxJobs, config_ok \in BOOLEAN : ApiRunStarts(j, config_ok)
    \/ CliCreatesJob
    \/ CliProcessing
    \/ \E j \in 1..MaxJobs, config_ok, file_exists \in BOOLEAN :
           CliRerun(j, config_ok, file_exists)
    \/ CoreEnds

SpecJobs == InitJobs /\ [][NextJobs]_vars

\* The core ends every time it is called: its loops run over the pages of the
\* document and over at most API_MAX_RETRIES + 1 attempts per LLM call.
FairSpecJobs == SpecJobs /\ WF_vars(CoreEnds)

(***************************************************************************)
(* Properties of the job runners (checked under SpecJobs / FairSpecJobs).  *)
(***************************************************************************)

\* a run of process_extraction has reached the core / has ended
ApiRunning == run # None /\ run.kind = "api" /\ run.pc = "extracting"
ApiRunDone == run # None /\ run.kind = "api" /\ run.pc = "done"

C19_StatusLifecycle ==
    [][\A j \in DOMAIN jobs :
           jobs'[j].status # jobs[j].status
           => <<jobs[j].status, jobs'[j].status>> \in
                  {<<"pending", "processing">>, <<"processing", "completed">>,
                   <<"processing", "failed">>}]_vars

(***************************************************************************)
(* Properties of the prompt text (SpecCoordinator).                        *)
(***************************************************************************)
\* the text of request i is the extracted text cut to MAX_TEXT_LENGTH
PromptTextCut(i) ==
    /\ Len(requests[i].text) <= cfg.max_text_length
    /\ requests[i].text = SubSeq(bundle.raw_text, 1,
                                 Min(Len(bundle.raw_text), cfg.max_text_length))

\* C27: in every LLM processing mode, the contract text of every request sent
\* to the LLM is at most MAX_TEXT_LENGTH characters long and is the first
\* MAX_TEXT_LENGTH characters of the extracted text.
C27_PromptTextAtMostMaxTextLength ==
    \A i \in 1..Len(requests) :
        requests[i].method # "extract_metadata_from_image" => PromptTextCut(i)

\* C27, restricted to the requests of extract_metadata_from_text
C27_TextRequestsCut ==
    \A i \in 1..Len(requests) :
        requests[i].method = "extract_metadata_from_text" => PromptTextCut(i)

\* a multimodal request carries a text longer than MAX_TEXT_LENGTH
C27_MultimodalUncut ==
    /\ Dispatched("multimodal")
    /\ Len(requests) = 1
    /\ requests[1].method = "extract_metadata_multimodal"
    /\ Len(requests[1].text) > cfg.max_text_length

(***************************************************************************)
(* Properties of validate (Spec): the client validates the parsed answer   *)
(* before it normalizes it.                                                *)
(***************************************************************************)
\* d leaves out a whole category of the schema
OmitsCategory(d) == \E c \in Categories : c \notin DOMAIN d.v

\* d has a category that leaves out one of its fields
OmitsFieldOfCategory(d) ==
    \E c \in Categories \cap DOMAIN d.v :
        IsDict(d.v[c]) /\ \E f \in FieldsOf(c) : f \notin DOMAIN d.v[c].v

\* validate has run on a parsed answer that is a dict
Validated == Finished /\ response # None /\ IsDict(data)

\* C28: validate(d) reports d as invalid whenever d omits a field the schema
\* defines, be it a single field inside a category or an entire category.
C28_OmissionReportedInvalid ==
    Validated /\ (OmitsCategory(data) \/ OmitsFieldOfCategory(data))
        => is_valid = FALSE

\* C28, restricted to a field left out of a category that is present
C28_FieldOmissionReportedInvalid ==
    Validated /\ OmitsFieldOfCategory(data) => is_valid = FALSE

\* an answer without one of the categories, its other categories complete,
\* was reported valid
C28_CategoryOmissionValid ==
    /\ Validated
    /\ OmitsCategory(data)
    /\ ~OmitsFieldOfCategory(data)
    /\ is_valid = TRUE

(***************************************************************************)
(* Properties of the stored result (SpecJobs).                             *)
(***************************************************************************)
\* get_job(j)["result_json"] is not None
HasResultPayload(j) == jobs[j].result \notin {None, JNull}

\* C29: at every moment a job has a stored result payload only while its
\* status is completed; a pending, processing or failed job has none.
C29_ResultOnlyWhileCompleted ==
    \A j \in DOMAIN jobs : HasResultPayload(j) => jobs[j].status = "completed"

\* a job that was completed holds its result while a later run of it is
\* processing or has failed
C29_RerunKeepsResult ==
    \E j \in DOMAIN jobs :
        /\ HasResultPayload(j)
        /\ jobs[j].status \in {"processing", "failed"}

(***************************************************************************)
(* Properties of the dispatch on the LLM processing mode (SpecCoordinator).*)
(***************************************************************************)
\* extract_metadata was called with a mode name _process_with_llm does not know
UnknownLlmMode ==
    cpc # "idle" /\ llm_mode \notin {"text_llm", "vision_llm", "multimodal", "dual_llm"}

\* C21: an unrecognized option (here the LLM processing mode) makes the
\* pipeline raise a configuration condition at dispatch, before the document
\* is read and before any LLM call is made.
C21_UnknownOptionRaisesConfigurationError ==
    UnknownLlmMode
        => /\ cpc = "raised"
           /\ outcome.exc = "ConfigurationError"
           /\ bundle = None
           /\ requests = <<>>

\* no run of extract_metadata ever ends in ConfigurationError
C21_NeverConfigurationError ==
    cpc = "raised" => outcome.exc # "ConfigurationError"

\* under an unknown mode name the text was sent to the text model and the
\* answer returned
C21_UnknownModeCallsLlm ==
    /\ UnknownLlmMode
    /\ cpc = "returned"
    /\ Len(requests) = 1
    /\ requests[1].method = "extract_metadata_from_text"
    /\ SchemaComplete(outcome)

(***************************************************************************)
(* extractors/pdf_extractor.py: PDFExtractor                               *)
(*                                                                         *)
(* A document is known by the stripped length of each page's native text   *)
(* and by one fault: none, the document is encrypted, one call on one page *)
(* raises, or the recognition of one page's image fails.  PyMuPDF refuses  *)
(* load_page on a document that is encrypted.  A text is the sequence of   *)
(* its segments, each with its origin, page and number of characters; the  *)
(* single blanks that " ".join puts between segments are left out.         *)
(***************************************************************************)
MaxPages == 3
MIN_TEXT_LENGTH == 50

PageOps == {"load_page", "get_text", "get_pixmap"}

Fault(kind, page, op) == [kind |-> kind, page |-> page, op |-> op]

NoFault == Fault("none", 0, "none")

\* the faults a document of n pages can have
Faults(n) ==
    {NoFault, Fault("encrypted", 0, "none")}
        \cup {Fault("page", p, op) : p \in 1..n, op \in {"get_text", "get_pixmap"}}
        \cup {Fault("ocr", p, "none") : p \in 1..n}

\* the page lengths of the documents: every document of up to MaxPages pages
\* that are short (10 characters) or long (200), two one-page documents at the
\* threshold, and the three-page document of lengths 200, 10 and 5000
PageLengths ==
    UNION {[1..n -> {10, 200}] : n \in 0..MaxPages}
        \cup {<< MIN_TEXT_LENGTH >>, << MIN_TEXT_LENGTH + 1 >>, <<200, 10, 5000>>}

Docs == UNION {[lens : {l}, fault : Faults(Len(l))] : l \in PageLengths}

\* the call op on page p of d raises
PageRaises(d, p, op) ==
    \/ d.fault.kind = "encrypted" /\ op = "load_page"
    \/ d.fault.kind = "page" /\ d.fault.page = p /\ d.fault.op = op

\* a call on the document or on the OCR handler
Ev(op, page, ok) ==
    [op |-> op, page |-> page, ok |-> ok, images |-> <<>>, texts |-> <<>>]

\* the calls ops made in order on page p, up to the first that raises
RECURSIVE PageCalls(_, _, _)
PageCalls(d, p, ops) ==
    IF ops = <<>> THEN <<>>
    ELSE IF PageRaises(d, p, Head(ops)) THEN << Ev(Head(ops), p, FALSE) >>
    ELSE << Ev(Head(ops), p, TRUE) >> \o PageCalls(d, p, Tail(ops))

\* one of the calls ops on page p raises
PageFails(d, p, ops) == \E i \in DOMAIN ops : PageRaises(d, p, ops[i])

Seg(kind, page, chars) == [kind |-> kind, page |-> page, chars |-> chars]

\* the number of characters of a text
RECURSIVE TextLen(_)
TextLen(text) == IF text = <<>> THEN 0 ELSE Head(text).chars + TextLen(Tail(text))

\* _detect_pdf_type: the pages sampled, the first five and the last
PagesToCheck(total_pages) ==
    IF total_pages > 5
    THEN [i \in 1..6 |-> IF i <= 5 THEN i ELSE total_pages]
    ELSE [i \in 1..total_pages |-> i]

\* _detect_pdf_type: the calls on the sampled pages from the i-th on; a call
\* that raises is caught and the loop goes on
RECURSIVE DetectCalls(_, _, _)
DetectCalls(d, pages, i) ==
    IF i > Len(pages) THEN <<>>
    ELSE PageCalls(d, pages[i], <<"load_page", "get_text">>) \o DetectCalls(d, pages, i + 1)

\* _detect_pdf_type(file_path): the type, and the calls made
DetectPdfType(d) ==
    LET total_pages == Len(d.lens)
        pages == PagesToCheck(total_pages)
        text_pages == Cardinality({i \in DOMAIN pages :
                          /\ ~PageFails(d, pages[i], <<"load_page", "get_text">>)
                          /\ d.lens[pages[i]] > MIN_TEXT_LENGTH})
        checked_pages == Len(pages)
    IN  [events |-> << Ev("open", 0, TRUE) >> \o DetectCalls(d, pages, 1),
         pdf_type |-> IF total_pages = 0 THEN "image"
                      ELSE IF 10 * text_pages > 8 * checked_pages THEN "text"
                      ELSE IF 10 * text_pages < 2 * checked_pages THEN "image"
                      ELSE "mixed"]

\* _has_image_pages(file_path): one of the last two pages has less than
\* min_text_length characters or cannot be read; the calls made
HasImagePages(d) ==
    LET total_pages == Len(d.lens)
        pages == IF total_pages >= 2 THEN << total_pages - 1, total_pages >>
                 ELSE IF total_pages = 1 THEN << 1 >> ELSE <<>>
        hit(i) == \/ PageFails(d, pages[i], <<"load_page", "get_text">>)
                  \/ d.lens[pages[i]] < MIN_TEXT_LENGTH
        hits == {i \in DOMAIN pages : hit(i)}
        last == IF hits = {} THEN Len(pages) ELSE CHOOSE i \in hits : \A j \in hits : i <= j
    IN  [events |-> << Ev("open", 0, TRUE) >>
                        \o DetectCalls(d, SubSeq(pages, 1, last), 1),
         found |-> hits # {}]

\* The page loop of an extraction method: the calls from page p on, ending at
\* the first page on which a call raises.  ops(q) are the calls made on page q.
RECURSIVE LoopCalls(_, _, _)
LoopCalls(d, ops, p) ==
    IF p > Len(d.lens) THEN <<>>
    ELSE IF PageFails(d, p, ops[p]) THEN PageCalls(d, p, ops[p])
    ELSE PageCalls(d, p, ops[p]) \o LoopCalls(d, ops, p + 1)

\* a call raises in the page loop
LoopFails(d, ops) == \E p \in 1..Len(d.lens) : PageFails(d, p, ops[p])

\* fitz.open and the doc.is_encrypted check that begin each extraction method
OpenAndCheck == << Ev("open", 0, TRUE), Ev("is_encrypted", 0, TRUE) >>

\* the segments f(p) of the pages from p on that are in keep, in page order
RECURSIVE PageSegs(_, _, _, _)
PageSegs(n, keep, f, p) ==
    IF p > n THEN <<>>
    ELSE (IF p \in keep THEN f[p] ELSE <<>>) \o PageSegs(n, keep, f, p + 1)

\* the spans of the pages in keep, each page followed by "\n"
NativeText(d, keep) ==
    PageSegs(Len(d.lens), keep,
             [p \in 1..Len(d.lens) |->
                  << Seg("native", p, d.lens[p]), Seg("newline", p, 1) >>], 1)

\* ExtractedTextResult(raw_text, metadata)
TextResult(raw_text, extraction_method, mode, preprocessed_images, image_pages_bytes) ==
    [t |-> "result", raw_text |-> raw_text, extraction_method |-> extraction_method,
     extraction_mode |-> mode, preprocessed_images |-> preprocessed_images,
     image_pages_bytes |-> image_pages_bytes, ocr_engine |-> "none"]

\* what an extraction method hands back: the calls it made and its result
Done(evs, res) == [events |-> evs, result |-> res]

\* _extract_text_based(file_path)
ExtractTextBased(d) ==
    LET ops == [p \in 1..Len(d.lens) |-> <<"load_page", "get_text">>]
    IN  IF d.fault.kind = "encrypted" THEN Done(OpenAndCheck, Raise("FileError"))
        ELSE IF LoopFails(d, ops)
        THEN Done(OpenAndCheck \o LoopCalls(d, ops, 1), Raise("ValueError"))
        ELSE Done(OpenAndCheck \o LoopCalls(d, ops, 1),
                  TextResult(NativeText(d, {p \in 1..Len(d.lens) : d.lens[p] > 0}),
                             "text", "none", Absent, Absent))

\* _extract_image_based(file_path): every page is rendered and kept for OCR
ExtractImageBased(d) ==
    LET ops == [p \in 1..Len(d.lens) |-> <<"load_page", "get_pixmap">>]
    IN  IF d.fault.kind = "encrypted" THEN Done(OpenAndCheck, Raise("FileError"))
        ELSE IF LoopFails(d, ops)
        THEN Done(OpenAndCheck \o LoopCalls(d, ops, 1), Raise("ValueError"))
        ELSE Done(OpenAndCheck \o LoopCalls(d, ops, 1),
                  TextResult(<<>>, "ocr", "none", JList([p \in 1..Len(d.lens) |-> p]),
                             Absent))

(***************************************************************************)
(* extractors/ocr_handler.py: OCRHandler                                   *)
(***************************************************************************)
KnownOcrEngines == {"tesseract", "gcv", "gemini_vision"}

\* OCRHandler(ocr_engine): _initialize_engine raises on an unknown name
OcrHandlerInit(engine) ==
    IF engine \in KnownOcrEngines THEN None ELSE Raise("ConfigurationError")

\* the construction of the handler, as a call
OcrHandlerCall(engine) == Ev("OCRHandler", 0, ~IsRaise(OcrHandlerInit(engine)))


\* the engine's recognition of the image of page image raises
RecognitionFails(d, image) == d.fault.kind = "ocr" /\ d.fault.page = image

\* extract_text_from_image(image): the engine's text of the page's image, or
\* whatever the engine raises
ExtractTextFromImage(d, image) ==
    IF RecognitionFails(d, image)
    THEN Raise("TesseractError")
    ELSE << Seg("ocr", image, 30) >>

\* extract_text_from_images(images): one text per image, "" for an image whose
\* recognition raised
ExtractTextFromImages(d, images) ==
    [i \in DOMAIN images |->
        IF RecognitionFails(d, images[i]) THEN <<>>
        ELSE ExtractTextFromImage(d, images[i])]

\* the batch call on images of document d, as a call with what it returned
OcrBatchCall(d, images) ==
    [op |-> "extract_text_from_images", page |-> 0, ok |-> TRUE, images |-> images,
     texts |-> ExtractTextFromImages(d, images)]

ParagraphBreak == Seg("sep", 0, 2)

\* sep.join(texts)
RECURSIVE JoinTexts(_, _)
JoinTexts(texts, sep) ==
    IF texts = <<>> THEN <<>>
    ELSE IF Len(texts) = 1 THEN texts[1]
    ELSE texts[1] \o << sep >> \o JoinTexts(Tail(texts), sep)

(***************************************************************************)
(* extractors/pdf_extractor.py: _extract_mixed and extract                 *)
(***************************************************************************)
\* the elements of a set of page numbers in ascending order
RECURSIVE InPageOrder(_)
InPageOrder(pages) ==
    IF pages = {} THEN <<>>
    ELSE LET p == CHOOSE p \in pages : \A q \in pages : p <= q
         IN  << p >> \o InPageOrder(pages \ {p})

\* text_ocr: each image page's OCR text that is not empty follows under its
\* page marker "\n[Page n - OCR Text]\n"
RECURSIVE MarkedOcrText(_, _, _)
MarkedOcrText(image_pages, ocr_texts, i) ==
    IF i > Len(image_pages) THEN <<>>
    ELSE (IF i <= Len(ocr_texts) /\ ocr_texts[i] # <<>>
          THEN << Seg("marker", image_pages[i], 21) >> \o ocr_texts[i]
                   \o << Seg("newline", image_pages[i], 1) >>
          ELSE <<>>)
         \o MarkedOcrText(image_pages, ocr_texts, i + 1)

\* a page is text-based when its stripped text is longer than min_text_length
NativeTextPages(d) == {p \in 1..Len(d.lens) : d.lens[p] > MIN_TEXT_LENGTH}

\* _extract_mixed(file_path) under EXTRACTION_MODE mode and OCR_ENGINE engine
ExtractMixed(d, mode, engine) ==
    LET native == NativeTextPages(d)
        image_pages == InPageOrder((1..Len(d.lens)) \ native)
        ops == [p \in 1..Len(d.lens) |->
                   IF p \in native
                   THEN IF mode # "image_only"
                        THEN <<"load_page", "get_text", "get_text">>
                        ELSE <<"load_page", "get_text">>
                   ELSE <<"load_page", "get_text", "get_text", "get_pixmap">>]
        loop == OpenAndCheck \o LoopCalls(d, ops, 1)
        text_pages_text == IF mode # "image_only" THEN NativeText(d, native) ELSE <<>>
        ocr_due == mode \in {"image_only", "text_ocr"} /\ image_pages # <<>>
        ocr_texts == ExtractTextFromImages(d, image_pages)
        raw_text == CASE mode = "image_only" ->
                             IF image_pages # <<>>
                             THEN JoinTexts(ocr_texts, ParagraphBreak) ELSE <<>>
                      [] mode = "text_ocr" ->
                             text_pages_text \o MarkedOcrText(image_pages, ocr_texts, 1)
                      [] OTHER -> text_pages_text
    IN  IF d.fault.kind = "encrypted" THEN Done(OpenAndCheck, Raise("FileError"))
        ELSE IF LoopFails(d, ops) THEN Done(loop, Raise("ValueError"))
        ELSE IF ocr_due /\ IsRaise(OcrHandlerInit(engine))
        THEN Done(loop \o << OcrHandlerCall(engine) >>, OcrHandlerInit(engine))
        ELSE Done(loop \o (IF ocr_due
                           THEN << OcrHandlerCall(engine), OcrBatchCall(d, image_pages) >>
                           ELSE <<>>),
                  TextResult(raw_text, "mixed", mode, Absent,
                             IF mode = "multimodal"
                             THEN JList([i \in DOMAIN image_pages |->
                                            ImagePage(image_pages[i])])
                             ELSE JNull))

\* extract(file_path) of an extractor whose cached type is cached ("none" when
\* nothing is cached): FileError and ExtractionError pass, any other
\* exception is wrapped in ExtractionError
PdfExtract(d, mode, engine, cached) ==
    LET det == DetectPdfType(d)
        pdf_type == IF cached # "none" THEN cached ELSE det.pdf_type
        has == HasImagePages(d)
        asked == pdf_type = "text" /\ mode = "multimodal"
        inner == IF pdf_type = "text"
                 THEN IF asked /\ has.found
                      THEN ExtractMixed(d, mode, engine) ELSE ExtractTextBased(d)
                 ELSE IF pdf_type = "image" THEN ExtractImageBased(d)
                 ELSE ExtractMixed(d, mode, engine)
    IN  Done((IF cached # "none" THEN <<>> ELSE det.events)
                 \o (IF asked THEN has.events ELSE <<>>) \o inner.events,
             IF IsRaise(inner.result)
                /\ inner.result.exc \notin {"FileError", "ExtractionError"}
             THEN RaiseFrom("ExtractionError", inner.result.exc)
             ELSE inner.result)

(***************************************************************************)
(* extractors/extraction_coordinator.py: _extract_from_pdf, and the        *)
(* specification of the PDF extraction                                     *)
(***************************************************************************)
OCR_METHODS == {"ocr_all", "ocr_images_only"}

\* lines 171-175: the OCR texts follow the text there is (ocr_images_only),
\* or are the text
SpliceOcrText(method, raw_text, ocr_texts) ==
    IF method = "ocr_images_only" /\ raw_text # <<>>
    THEN raw_text \o << ParagraphBreak >> \o JoinTexts(ocr_texts, ParagraphBreak)
    ELSE JoinTexts(ocr_texts, ParagraphBreak)

\* the images the extractor stored for OCR: metadata.get("preprocessed_images")
PreprocessedImages(res) ==
    IF res.preprocessed_images = Absent THEN <<>> ELSE res.preprocessed_images.v

\* Variant of OcrAfterExtract: the images stay in the result after OCR.
OcrAfterExtractKeepingImages(d, method, engine, res) ==
    LET preprocessed_images == PreprocessedImages(res)
        named == [res EXCEPT !.extraction_method = method]
    IN  IF ~(preprocessed_images # <<>> /\ method \in OCR_METHODS)
        THEN Done(<<>>, named)
        ELSE IF IsRaise(OcrHandlerInit(engine))
        THEN Done(<< OcrHandlerCall(engine) >>, OcrHandlerInit(engine))
        ELSE Done(<< OcrHandlerCall(engine), OcrBatchCall(d, preprocessed_images) >>,
                  [named EXCEPT
                      !.raw_text = SpliceOcrText(method, res.raw_text,
                                       ExtractTextFromImages(d, preprocessed_images)),
                      !.ocr_engine = engine])

\* lines 150-184 of _extract_from_pdf on the extractor's result res
OcrAfterExtract(d, method, engine, res) ==
    LET preprocessed_images == PreprocessedImages(res)
        named == [res EXCEPT !.extraction_method = method]
    IN  IF ~(preprocessed_images # <<>> /\ method \in OCR_METHODS)
        THEN Done(<<>>, named)
        ELSE IF IsRaise(OcrHandlerInit(engine))
        THEN Done(<< OcrHandlerCall(engine) >>, OcrHandlerInit(engine))
        ELSE Done(<< OcrHandlerCall(engine), OcrBatchCall(d, preprocessed_images) >>,
                  [named EXCEPT
                      !.raw_text = SpliceOcrText(method, res.raw_text,
                                       ExtractTextFromImages(d, preprocessed_images)),
                      !.ocr_engine = engine,
                      !.preprocessed_images = Absent])

ExtractionModes == {"text_only", "image_only", "text_ocr", "multimodal", "text_image"}
ExtractionMethods == {"text_direct", "ocr_all", "ocr_images_only", "hybrid"}

\* the settings of an extraction: the strategy (a PDFExtractor in both),
\* EXTRACTION_MODE, the extraction method and the OCR engine
Opts ==
    [strategy : {"auto", "text_extraction"}, mode : ExtractionModes,
     method : ExtractionMethods, engine : {"tesseract", "bogus"}]

\* the document and the settings are given; nothing has run
InitPdf ==
    /\ cfg \in [max_field_length : {MAX_FIELD_LENGTH_DEFAULT},
                 max_retries : {API_MAX_RETRIES_DEFAULT},
                 initial_delay : {API_RETRY_INITIAL_DELAY_DEFAULT},
                 max_delay : {API_RETRY_MAX_DELAY_DEFAULT}]
    /\ pc = "idle"
    /\ data = None
    /\ result = None
    /\ again = None
    /\ ClientIdle
    /\ CoordinatorIdle
    /\ RunnerIdle
    /\ UploadsIdle
    /\ doc \in Docs
    /\ opts \in Opts
    /\ ppc = "start"
    /\ events = <<>>
    /\ extraction = None

\* _extract_from_pdf begins: strategy_factory.get_extractor; under the auto
\* strategy the type is detected and cached in the extractor
GetExtractor ==
    /\ ppc = "start"
    /\ IF opts.strategy = "auto"
       THEN \E det \in {DetectPdfType(doc)} :
               /\ events' = det.events
               /\ extraction' = [t |-> "extractor", cached |-> det.pdf_type]
       ELSE /\ events' = <<>>
            /\ extraction' = [t |-> "extractor", cached |-> "none"]
    /\ ppc' = "extract"
    /\ UNCHANGED <<doc, opts, nvars, cvars, xvars, jvars, uvars>>

\* result = extractor.extract(file_path)
ExtractorExtract ==
    /\ ppc = "extract"
    /\ \E r \in {PdfExtract(doc, opts.mode, opts.engine, extraction.cached)} :
           /\ events' = events \o r.events
           /\ extraction' = r.result
           /\ ppc' = IF IsRaise(r.result) THEN "raised" ELSE "run_ocr"
    /\ UNCHANGED <<doc, opts, nvars, cvars, xvars, jvars, uvars>>

\* the rest of _extract_from_pdf: OCR when the method asks for it, then the
\* result is returned to extract_metadata, which goes on to the LLM step
RunOcr ==
    /\ ppc = "run_ocr"
    /\ \E r \in {OcrAfterExtract(doc, opts.method, opts.engine, extraction)} :
           /\ events' = events \o r.events
           /\ extraction' = r.result
           /\ ppc' = IF IsRaise(r.result) THEN "raised" ELSE "returned"
    /\ UNCHANGED <<doc, opts, nvars, cvars, xvars, jvars, uvars>>

\* OCRHandler(opts.engine).extract_text_from_image(image) on the image of
\* page image of the document
RecognizeOne(image) ==
    /\ ppc = "start"
    /\ opts.engine \in KnownOcrEngines
    /\ image \in 1..Len(doc.lens)
    /\ \E text \in {ExtractTextFromImage(doc, image)} :
           /\ events' = << [op |-> "extract_text_from_image", page |-> image,
                            ok |-> ~RecognitionFails(doc, image), images |-> << image >>,
                            texts |-> IF RecognitionFails(doc, image)
                                      THEN <<>> ELSE << text >>] >>
           /\ extraction' = IF RecognitionFails(doc, image) THEN text
                            ELSE [t |-> "text", text |-> text]
           /\ ppc' = IF RecognitionFails(doc, image) THEN "raised" ELSE "recognized"
    /\ UNCHANGED <<doc, opts, nvars, cvars, xvars, jvars, uvars>>

NextPdf ==
    \/ GetExtractor
    \/ ExtractorExtract
    \/ RunOcr
    \/ \E image \in 1..MaxPages : RecognizeOne(image)

SpecPdf == InitPdf /\ [][NextPdf]_vars

(***************************************************************************)
(* Properties of the PDF extraction (SpecPdf).                             *)
(***************************************************************************)
\* the pages that have a segment of the given kind in text
SegPages(text, kind) == {text[i].page : i \in {j \in DOMAIN text : text[j].kind = kind}}

\* the batch calls made on the OCR handler, in order
OcrBatches == SelectSeq(events, LAMBDA e : e.op = "extract_text_from_images")

\* the pages on which the call op was made
PagesCalled(op) == {events[i].page : i \in {j \in DOMAIN events : events[j].op = op}}

\* the image pages of the document: those that are not native-text pages
ImagePagesOf(d) == (1..Len(d.lens)) \ NativeTextPages(d)

\* _extract_from_pdf returned the result for a document without fault
ExtractedSound == ppc = "returned" /\ doc.fault.kind = "none"

\* C22: a page is native_text exactly when its stripped text is longer than
\* 50 characters, else image; under text_direct the image pages are skipped
\* and the text derives only from the native-text pages; under
\* ocr_images_only exactly the image pages are queued for OCR and the
\* native-text pages contribute native text.
C22_PageRoutingByLengthAndMethod ==
    ExtractedSound =>
        /\ opts.method = "text_direct" =>
               /\ SegPages(extraction.raw_text, "native") = NativeTextPages(doc)
               /\ SegPages(extraction.raw_text, "ocr") = {}
               /\ OcrBatches = <<>>
        /\ opts.method = "ocr_images_only" =>
               /\ SegPages(extraction.raw_text, "native") = NativeTextPages(doc)
               /\ SegPages(extraction.raw_text, "ocr") = ImagePagesOf(doc)
               /\ ImagePagesOf(doc) # {} =>
                      /\ Len(OcrBatches) = 1
                      /\ OcrBatches[1].images = InPageOrder(ImagePagesOf(doc))

\* C22, the part about the threshold: whenever _extract_mixed ran, the pages
\* it rendered are exactly those of at most 50 characters, and unless the mode
\* is image_only the native text is that of exactly the longer pages.
C22_MixedRoutesByThreshold ==
    (ExtractedSound /\ extraction.extraction_mode # "none") =>
        /\ PagesCalled("get_pixmap") = ImagePagesOf(doc)
        /\ SegPages(extraction.raw_text, "native") =
               IF extraction.extraction_mode = "image_only" THEN {}
               ELSE NativeTextPages(doc)

\* the document of lengths 200, 10, 5000 under text_direct: the text holds
\* OCR text of page 2
C22_TextDirectHoldsOcrText ==
    /\ ExtractedSound
    /\ doc.lens = <<200, 10, 5000>>
    /\ opts.method = "text_direct"
    /\ SegPages(extraction.raw_text, "ocr") = {2}

\* the document of lengths 200, 10, 5000 under ocr_images_only: nothing was
\* given to the OCR handler
C22_OcrImagesOnlyQueuesNothing ==
    /\ ExtractedSound
    /\ doc.lens = <<200, 10, 5000>>
    /\ opts.method = "ocr_images_only"
    /\ OcrBatches = <<>>
    /\ SegPages(extraction.raw_text, "native") = {1, 3}

\* _extract_from_pdf has ended for a document one of whose pages is faulty
PageFaultEnded == doc.fault.kind = "page" /\ ppc \in {"returned", "raised"}

\* C23: a page whose render or text extraction throws is treated as empty and
\* the remaining pages are still processed; a single page's failure never
\* aborts the extraction of the document.
C23_PageFailureNeverAborts ==
    PageFaultEnded =>
        /\ ppc = "returned"
        /\ PagesCalled("load_page") = 1..Len(doc.lens)

\* a call on a page raised and the extraction ended in ExtractionError, the
\* pages after it untouched
C23_PageFailureAborts ==
    /\ PageFaultEnded
    /\ ppc = "raised"
    /\ extraction.exc = "ExtractionError"
    /\ opts.strategy = "text_extraction"
    /\ doc.fault.page < Len(doc.lens)
    /\ PagesCalled("get_pixmap") \cap ((doc.fault.page + 1)..Len(doc.lens)) = {}

\* a call on a page raised inside an extraction method, that is after the
\* method's is_encrypted check
FailedCallAfterCheck ==
    \E i \in DOMAIN events :
        /\ ~events[i].ok
        /\ events[i].op \in PageOps
        /\ \E j \in 1..(i - 1) : events[j].op = "is_encrypted"

\* C23, what the code does: a call that raises on a page inside an extraction
\* method ends the extraction in ExtractionError; only _detect_pdf_type, which
\* runs before, goes on after a page's failure.
C23_FaultHitMeansExtractionError ==
    PageFaultEnded =>
        (FailedCallAfterCheck <=>
            (ppc = "raised" /\ extraction.exc = "ExtractionError"
                           /\ extraction.cause = "ValueError"))

(***************************************************************************)
(* C24: the encryption check and the page calls                            *)
(***************************************************************************)
\* the positions in events of the calls on pages
PageCallPositions == {i \in DOMAIN events : events[i].op \in PageOps}

\* the positions in events of the doc.is_encrypted checks
EncryptionCheckPositions == {i \in DOMAIN events : events[i].op = "is_encrypted"}

\* C24: for an encrypted PDF no call that loads, reads or renders a page
\* comes before the encryption check.
C24_NoPageStepBeforeEncryptionCheck ==
    doc.fault.kind = "encrypted" =>
        \A i \in PageCallPositions : \E j \in EncryptionCheckPositions : j < i

\* an encrypted PDF on which the type detection tried to load a page, with no
\* encryption check made yet
C24_PageLoadTriedBeforeCheck ==
    /\ doc.fault.kind = "encrypted"
    /\ PageCallPositions # {}
    /\ EncryptionCheckPositions = {}

\* C24, what the code does: the extraction of an encrypted PDF ends in
\* FileError and no call on a page succeeded, but every sampled page was
\* tried by the type detection before the one encryption check.
C24_EncryptedEndsInFileError ==
    (doc.fault.kind = "encrypted" /\ ppc \in {"run_ocr", "returned", "raised"}) =>
        /\ ppc = "raised"
        /\ extraction.exc = "FileError"
        /\ \A i \in PageCallPositions : ~events[i].ok
        /\ Cardinality(EncryptionCheckPositions) = 1
        /\ \A i \in PageCallPositions : \A j \in EncryptionCheckPositions : i < j
        /\ {events[i].page : i \in PageCallPositions} = 1..Len(doc.lens)

(***************************************************************************)
(* C25: recognition failures in the OCR handler                            *)
(***************************************************************************)
\* the calls of the two recognition operations of the handler
RecognitionCalls ==
    SelectSeq(events, LAMBDA e : e.op \in {"extract_text_from_image",
                                            "extract_text_from_images"})

\* C25: the OCR adapter never raises on a recognition failure, given one image
\* or many; the batch returns one text per image in input order, and a failed
\* image yields the empty string for that image only.
C25_RecognitionNeverRaises ==
    \A i \in DOMAIN RecognitionCalls :
        LET e == RecognitionCalls[i]
        IN  /\ e.ok
            /\ Len(e.texts) = Len(e.images)
            /\ \A k \in DOMAIN e.images :
                   e.texts[k] = IF RecognitionFails(doc, e.images[k]) THEN <<>>
                                ELSE << Seg("ocr", e.images[k], 30) >>

\* the single-image operation raised what the engine raised
C25_SingleImageRaises ==
    /\ ppc = "raised"
    /\ extraction = Raise("TesseractError")
    /\ \E i \in DOMAIN events :
           events[i].op = "extract_text_from_image" /\ ~events[i].ok

\* C25, what the code does: the batch operation never raises and returns one
\* text per image in input order, empty exactly for the images that failed.
C25_BatchKeepsLengthAndOrder ==
    \A i \in DOMAIN OcrBatches :
        LET e == OcrBatches[i]
        IN  /\ e.ok
            /\ Len(e.texts) = Len(e.images)
            /\ \A k \in DOMAIN e.images :
                   e.texts[k] = IF RecognitionFails(doc, e.images[k]) THEN <<>>
                                ELSE << Seg("ocr", e.images[k], 30) >>

\* a batch of several images of which one, not the last, failed
C25_BatchWithOneFailure ==
    \E i \in DOMAIN OcrBatches :
        /\ Len(OcrBatches[i].images) >= 2
        /\ \E k \in DOMAIN OcrBatches[i].images :
               /\ k < Len(OcrBatches[i].images)
               /\ RecognitionFails(doc, OcrBatches[i].images[k])
               /\ OcrBatches[i].texts[k] = <<>>
               /\ OcrBatches[i].texts[k + 1] # <<>>

(***************************************************************************)
(* C26: OCR of the queued images                                           *)
(***************************************************************************)
\* the pages rendered to images, in page order
RenderedPages == InPageOrder(PagesCalled("get_pixmap"))

\* the extraction went through _extract_mixed
WentMixed == extraction.extraction_mode # "none"

\* OCR is due on the rendered images: the coordinator's condition (line 163)
\* on what _extract_image_based stored, or the OCR modes of _extract_mixed
OcrQueued ==
    /\ RenderedPages # <<>>
    /\ IF WentMixed THEN opts.mode \in {"image_only", "text_ocr"}
       ELSE opts.method \in OCR_METHODS

\* the positions in the text of the segments of a kind
SegPositions(text, kind) == {i \in DOMAIN text : text[i].kind = kind}

C26_AtMostOneBatch ==
    /\ Len(OcrBatches) <= 1
    /\ (ppc = "returned" /\ OcrBatches # <<>>) => OcrQueued

\* _extract_mixed ran OCR under text_ocr: native text, then the OCR text
C26_MixedOcrAfterNativeText ==
    /\ ppc = "returned"
    /\ OcrQueued
    /\ WentMixed
    /\ SegPositions(extraction.raw_text, "native") # {}
    /\ SegPositions(extraction.raw_text, "ocr") # {}

\* images stored in the result under a method that runs no OCR stay there
C26_StoredImagesKeptWithoutOcr ==
    /\ ppc = "returned"
    /\ ~OcrQueued
    /\ PreprocessedImages(extraction) # <<>>

(***************************************************************************)
(* api/routers/extract.py and api/services/extraction_service.py: the      *)
(* background extraction tasks of the accepted uploads.  tasks[i] is the   *)
(* status of the job of the i-th accepted upload; its task is running      *)
(* while the status is "processing".  Each task runs in a thread of its    *)
(* own, so the tasks start and end in any order.                           *)
(***************************************************************************)
MaxUploads == 6             \* at most this many uploads are accepted
API_MAX_CONCURRENT_EXTRACTIONS == 5

InitUploads ==
    /\ cfg \in [max_field_length : {MAX_FIELD_LENGTH_DEFAULT},
                 max_retries : {API_MAX_RETRIES_DEFAULT},
                 initial_delay : {API_RETRY_INITIAL_DELAY_DEFAULT},
                 max_delay : {API_RETRY_MAX_DELAY_DEFAULT}]
    /\ pc = "idle"
    /\ data = None
    /\ result = None
    /\ again = None
    /\ ClientIdle
    /\ CoordinatorIdle
    /\ RunnerIdle
    /\ PdfIdle
    /\ UploadsIdle

\* the tasks that are running
RunningTasks == {i \in DOMAIN tasks : tasks[i] = "processing"}

\* POST /extract with a valid file and valid overrides: db.create_job, then
\* background_tasks.add_task(process_extraction, ...)
UploadFile ==
    /\ Len(tasks) < MaxUploads
    /\ tasks' = Append(tasks, "pending")
    /\ UNCHANGED <<nvars, cvars, xvars, jvars, pvars>>

\* process_extraction begins in its thread: validate_config(), then the
\* status becomes "processing"; nothing looks at the tasks already running
ProcessExtractionStarts(i, config_ok) ==
    /\ i \in DOMAIN tasks
    /\ tasks[i] = "pending"
    /\ tasks' = [tasks EXCEPT ![i] = IF config_ok THEN "processing" ELSE "failed"]
    /\ UNCHANGED <<nvars, cvars, xvars, jvars, pvars>>

\* process_extraction ends: complete_job, or the job is set failed
ProcessExtractionEnds(i, ok) ==
    /\ i \in DOMAIN tasks
    /\ tasks[i] = "processing"
    /\ tasks' = [tasks EXCEPT ![i] = IF ok THEN "completed" ELSE "failed"]
    /\ UNCHANGED <<nvars, cvars, xvars, jvars, pvars>>

NextUploads ==
    \/ UploadFile
    \/ \E i \in 1..MaxUploads, config_ok \in BOOLEAN : ProcessExtractionStarts(i, config_ok)
    \/ \E i \in 1..MaxUploads, ok \in BOOLEAN : ProcessExtractionEnds(i, ok)

SpecUploads == InitUploads /\ [][NextUploads]_vars

(***************************************************************************)
(* C30: the number of tasks running at once                                *)
(***************************************************************************)
\* C30: at any moment at most API_MAX_CONCURRENT_EXTRACTIONS background
\* extraction tasks are running, however many uploads have been accepted.
C30_AtMostMaxConcurrentRunning ==
    Cardinality(RunningTasks) <= API_MAX_CONCURRENT_EXTRACTIONS

\* more tasks are running than API_MAX_CONCURRENT_EXTRACTIONS
C30_MoreThanMaxRunning ==
    Cardinality(RunningTasks) = API_MAX_CONCURRENT_EXTRACTIONS + 1

\* C30, what the code does: every accepted upload's task may run at once;
\* the only limit is the number of uploads accepted.
C30_RunningAtMostAccepted ==
    /\ Cardinality(RunningTasks) <= Len(tasks)
    /\ Len(tasks) <= MaxUploads

(***************************************************************************)
(* The OCR engine's name is checked when the handler is constructed        *)
(***************************************************************************)
\* an unknown OCR engine was refused with ConfigurationError only after the
\* pages of the document had been loaded and rendered
OcrEngineCheckedAfterPages ==
    /\ ppc = "raised"
    /\ extraction.exc = "ConfigurationError"
    /\ \E i \in DOMAIN events :
           /\ events[i].op = "OCRHandler"
           /\ ~events[i].ok
           /\ \E j \in 1..(i - 1) : events[j].op = "get_pixmap" /\ events[j].ok

====
